---- MODULE Spec2Model ----
(***************************************************************************)
(* A model of the JSON parser library: the lock-free SPSC ring buffer,     *)
(* the blocking Channel, the Tokenizer, the recursive-descent Parser and   *)
(* the concurrent lexer/parser pipeline.                                   *)
(*                                                                         *)
(* Threads are interleaved at the granularity of one shared-memory access  *)
(* per step.  Atomic loads and stores are single steps; the non-atomic     *)
(* copy of an item into a slot (m_buffer[tail] = p_item) takes two steps,  *)
(* and the slot is "torn" between them.                                    *)
(***************************************************************************)
EXTENDS Integers, Sequences, FiniteSets, TLC

\* ------------------------------------------------------------------------
\* Bounds of the model
\* ------------------------------------------------------------------------
MaxCapacity == 3   \* ring buffers of capacity 1 .. MaxCapacity
MaxPush == 5       \* push attempts of the free-running ring producer
MaxChanCapacity == 2  \* Channels of capacity 0 (unbounded) .. MaxChanCapacity
MaxQueue == 2      \* items an unbounded Channel is filled with
MaxNodes == 3      \* Elements the free store can hold
MaxSlots == 1      \* std::string objects of the program that keys and values view
MaxRefs == 2       \* Ref objects of the program
MaxLen == 3        \* characters of a text given to a Tokenizer on its own
MaxPeeks == 2      \* consecutive peek() calls on a Tokenizer
MaxOver == 2       \* bytes behind a string's terminator that a read can reach
MaxArity == 2      \* elements of a compared container
MaxTokens == 6     \* tokens of a sequence given to parse_object
MaxBlocks == 3     \* addresses ::malloc can hand to an allocator
BlockSize == 2     \* slots of a block of the BlockAllocator (1024 and 4096 in the code)
MaxCalls == 6      \* calls made on an allocator

\* ------------------------------------------------------------------------
\* State
\* ------------------------------------------------------------------------
VARIABLES
    m_capacity,  \* LockFreeRingBuffer::m_capacity
    m_buffer,    \* LockFreeRingBuffer::m_buffer, slot -> [torn, v]
    m_head,      \* LockFreeRingBuffer::m_head (read index)
    m_tail,      \* LockFreeRingBuffer::m_tail (write index)
    pp,          \* the producer thread: its position in push() and its locals
    cc,          \* the consumer thread: its position in peek()/pop() and its locals
    accepted,    \* history: items whose push published the write index
    observed,    \* history: items the consumer saw and popped
    npush,       \* number of push() calls the free-running producer has made
    chan_capacity,     \* Channel::m_capacity (0: unbounded)
    m_queue,           \* Channel::m_queue
    m_mutex,           \* Channel::m_mutex: 0 when free, else the holder
    m_cond_not_empty,  \* Channel::m_cond_not_empty: the threads waiting on it
    m_cond_not_full,   \* Channel::m_cond_not_full: the threads waiting on it
    th,                \* the threads using the Channel: position and locals
    owning,            \* whether T owns storage that a move constructor steals
    input,       \* the text given to both parsers
    tk,          \* the Tokenizer in use: m_pos, line, column, m_current_token
    ps,          \* the Parser in use: its position in the grammar and its locals
    syncOut,     \* how the synchronous parse of the text ended
    prod,        \* the producer thread of the pipeline: its position and its token
    par,         \* the pipeline's parse() call on the caller's thread
    joined,      \* whether producer_thread.join() has returned
    heap,        \* the Elements on the free store: node id -> its fields
    roots,       \* the nodes the program holds by raw pointer and must delete
    strs,        \* the program's std::string objects: slot -> its characters
    refs,        \* the program's Ref objects: ref id -> state and m_ptr
    ub,          \* the undefined behaviour the program has run into, if any
    last,        \* history: the last operation on the document and its operands
    call,        \* history: the last call on the Tokenizer and what it returned
    otk,         \* the Tokenizer of the earlier variant: its stream and its token
    trip,        \* the round trip: the document, its first tree, the text written
    cmp,         \* two containers and what operator== returned for them
    pool,        \* an allocator of the object pool: its blocks, its lists, its history
    po           \* a sequence of tokens and how parse_object ended on it

ringVars == <<m_capacity, m_buffer, m_head, m_tail, pp, cc, accepted, observed, npush>>

chanVars == <<chan_capacity, m_queue, m_mutex, m_cond_not_empty, m_cond_not_full, th, owning>>

pipeVars == <<input, tk, ps, syncOut, prod, par, joined>>

docVars == <<heap, roots, strs, refs, ub, last>>

tokVars == <<call, otk>>

tripVars == <<trip>>

utilVars == <<cmp, pool, po>>

vars == <<ringVars, chanVars, pipeVars, docVars, tokVars, tripVars, utilVars>>

\* Variables a ring-buffer step never touches.
RingFrame == UNCHANGED <<chanVars, pipeVars, docVars, tokVars, tripVars, utilVars>>

\* Variables a Channel step never touches.
ChanFrame == UNCHANGED <<ringVars, pipeVars, docVars, tokVars, tripVars, utilVars>>

\* Variables a step of the parsers never touches.
PipeFrame == UNCHANGED <<chanVars, docVars, tokVars, tripVars, utilVars>>

\* No text is being parsed.
PipeUnused ==
    /\ input = <<>>
    /\ tk = <<>>
    /\ ps = <<>>
    /\ syncOut = <<>>
    /\ prod = <<>>
    /\ par = "unused"
    /\ joined = FALSE

\* No document is being built.
DocUnused ==
    /\ heap = <<>>
    /\ roots = {}
    /\ strs = <<>>
    /\ refs = <<>>
    /\ ub = "none"
    /\ last = <<>>

\* No containers are compared and no allocator is in use.
UtilUnused ==
    /\ cmp = <<>>
    /\ pool = <<>>
    /\ po = <<>>

\* No Tokenizer is driven on its own, and no tree is written back as text.
TokUnused ==
    /\ call = <<>>
    /\ otk = <<>>
    /\ trip = <<>>

\* ------------------------------------------------------------------------
\* LockFreeRingBuffer
\* ------------------------------------------------------------------------
Slot(v) == [torn |-> FALSE, v |-> v]

\* std::vector<T> m_buffer(p_capacity): p_capacity value-initialised slots.
NewBuffer(cap, dflt) == [i \in 0..(cap - 1) |-> Slot(dflt)]

\* Number of published, not yet popped items.
Count == (m_tail - m_head + m_capacity) % m_capacity

\* Indices of the published, not yet popped slots.
Live == {(m_head + k) % m_capacity : k \in 0..(Count - 1)}

\* push(): "if (next_tail == m_head.load(acquire)) return false;"
PushFullNever(next_tail, head) == FALSE
PushFullEarly(next_tail, head) == (next_tail + 1) % m_capacity = head
PushFull(next_tail, head) == next_tail = head

\* push(): the statements after the full check, in program order:
\* the slot is written (two steps), then the write index is published.
PushAfterPublishFirst(pc) ==
    CASE pc = "push_check" -> "push_store"
      [] pc = "push_store" -> "push_write"
      [] pc = "push_write" -> "push_write_end"
      [] pc = "push_write_end" -> "push_ret"
PushAfter(pc) ==
    CASE pc = "push_check" -> "push_write"
      [] pc = "push_write" -> "push_write_end"
      [] pc = "push_write_end" -> "push_store"
      [] pc = "push_store" -> "push_ret"

\* pop()/peek(): "if (head == m_tail.load(acquire)) return ...;"
IsEmptyNever(head, tail) == FALSE
IsEmpty(head, tail) == head = tail

ProducerIdle == [pc |-> "idle", item |-> 0, tail |-> 0, next_tail |-> 0,
                 head |-> 0, ret |-> FALSE, snap |-> <<>>]
ConsumerIdle == [pc |-> "idle", head |-> 0, next_head |-> 0, has |-> FALSE,
                 val |-> 0, ret |-> FALSE, seen |-> <<>>, raced |-> FALSE]

\* The caller enters push(p_item).  snap remembers the buffer at entry.
CallPush(item) == [pp EXCEPT !.pc = "push_load_tail", !.item = item,
                             !.ret = FALSE, !.snap = m_buffer]

\* size_t tail = m_tail.load(relaxed); size_t next_tail = (tail + 1) % m_capacity;
PushLoadTail ==
    /\ pp.pc = "push_load_tail"
    /\ pp' = [pp EXCEPT !.pc = "push_check", !.tail = m_tail,
                        !.next_tail = (m_tail + 1) % m_capacity]
    /\ UNCHANGED <<m_capacity, m_buffer, m_head, m_tail, cc, accepted, observed, npush>>
    /\ RingFrame

\* if (next_tail == m_head.load(acquire)) return false;
PushCheckFull ==
    /\ pp.pc = "push_check"
    /\ pp' = IF PushFull(pp.next_tail, m_head)
             THEN [pp EXCEPT !.pc = "push_ret", !.head = m_head, !.ret = FALSE]
             ELSE [pp EXCEPT !.pc = PushAfter("push_check"), !.head = m_head]
    /\ UNCHANGED <<m_capacity, m_buffer, m_head, m_tail, cc, accepted, observed, npush>>
    /\ RingFrame

\* m_buffer[tail] = p_item;  (the copy begins: the slot is partially written)
PushWriteBegin ==
    /\ pp.pc = "push_write"
    /\ m_buffer' = [m_buffer EXCEPT ![pp.tail] = [torn |-> TRUE, v |-> @.v]]
    /\ pp' = [pp EXCEPT !.pc = PushAfter("push_write")]
    /\ UNCHANGED <<m_capacity, m_head, m_tail, cc, accepted, observed, npush>>
    /\ RingFrame

\* m_buffer[tail] = p_item;  (the copy is complete)
PushWriteEnd ==
    /\ pp.pc = "push_write_end"
    /\ m_buffer' = [m_buffer EXCEPT ![pp.tail] = Slot(pp.item)]
    /\ pp' = [pp EXCEPT !.pc = PushAfter("push_write_end")]
    /\ UNCHANGED <<m_capacity, m_head, m_tail, cc, accepted, observed, npush>>
    /\ RingFrame

\* m_tail.store(next_tail, release); return true;
PushStoreTail ==
    /\ pp.pc = "push_store"
    /\ m_tail' = pp.next_tail
    /\ accepted' = Append(accepted, pp.item)
    /\ pp' = [pp EXCEPT !.pc = PushAfter("push_store"), !.ret = TRUE]
    /\ UNCHANGED <<m_capacity, m_buffer, m_head, cc, observed, npush>>
    /\ RingFrame

\* The caller enters peek().
CallPeek == [cc EXCEPT !.pc = "peek_load_head", !.has = FALSE]

\* size_t head = m_head.load(relaxed);
PeekLoadHead ==
    /\ cc.pc = "peek_load_head"
    /\ cc' = [cc EXCEPT !.pc = "peek_check", !.head = m_head]
    /\ UNCHANGED <<m_capacity, m_buffer, m_head, m_tail, pp, accepted, observed, npush>>
    /\ RingFrame

\* if (head == m_tail.load(acquire)) return std::nullopt;
PeekCheckEmpty ==
    /\ cc.pc = "peek_check"
    /\ cc' = IF IsEmpty(cc.head, m_tail)
             THEN [cc EXCEPT !.pc = "peek_ret", !.has = FALSE]
             ELSE [cc EXCEPT !.pc = "peek_read"]
    /\ UNCHANGED <<m_capacity, m_buffer, m_head, m_tail, pp, accepted, observed, npush>>
    /\ RingFrame

\* T value = m_buffer[head]; return value;
\* Reading a slot the producer is writing is a data race: the copy may hold
\* the old item, the new item or a mixture of the two (raced).
PeekRead ==
    /\ cc.pc = "peek_read"
    /\ \E v \in IF m_buffer[cc.head].torn
                THEN {m_buffer[cc.head].v, pp.item}
                ELSE {m_buffer[cc.head].v} :
          cc' = [cc EXCEPT !.pc = "peek_ret", !.has = TRUE, !.val = v,
                           !.seen = <<v>>,
                           !.raced = @ \/ m_buffer[cc.head].torn]
    /\ UNCHANGED <<m_capacity, m_buffer, m_head, m_tail, pp, accepted, observed, npush>>
    /\ RingFrame

\* The caller enters pop().
CallPop == [cc EXCEPT !.pc = "pop_load_head", !.ret = FALSE]

\* size_t head = m_head.load(relaxed); size_t next_head = (head + 1) % m_capacity;
PopLoadHead ==
    /\ cc.pc = "pop_load_head"
    /\ cc' = [cc EXCEPT !.pc = "pop_check", !.head = m_head,
                        !.next_head = (m_head + 1) % m_capacity]
    /\ UNCHANGED <<m_capacity, m_buffer, m_head, m_tail, pp, accepted, observed, npush>>
    /\ RingFrame

\* if (head == m_tail.load(acquire)) return false;
PopCheckEmpty ==
    /\ cc.pc = "pop_check"
    /\ cc' = IF IsEmpty(cc.head, m_tail)
             THEN [cc EXCEPT !.pc = "pop_ret", !.ret = FALSE]
             ELSE [cc EXCEPT !.pc = "pop_store"]
    /\ UNCHANGED <<m_capacity, m_buffer, m_head, m_tail, pp, accepted, observed, npush>>
    /\ RingFrame

\* m_head.store(next_head, release); return true;
\* The item that leaves the queue is the one the consumer last peeked; a pop
\* without a preceding peek removes the slot's item unseen.
PopStoreHead ==
    /\ cc.pc = "pop_store"
    /\ m_head' = cc.next_head
    /\ observed' = Append(observed, IF cc.seen # <<>> THEN cc.seen[1]
                                    ELSE m_buffer[cc.head].v)
    /\ cc' = [cc EXCEPT !.pc = "pop_ret", !.ret = TRUE, !.seen = <<>>]
    /\ UNCHANGED <<m_capacity, m_buffer, m_tail, pp, accepted, npush>>
    /\ RingFrame

\* ------------------------------------------------------------------------
\* Channel
\* ------------------------------------------------------------------------
\* Two threads call push, two threads call pop and peek.
Producers == {1, 2}
Consumers == {3, 4}
Threads == Producers \cup Consumers

\* room: an item was popped while the thread was blocked in push() (history).
ThreadIdle == [pc |-> "idle", item |-> [v |-> 0, moved |-> FALSE],
               room |-> FALSE]

\* The values of the Channel's variables while no Channel is in use.
ChanUnused ==
    /\ chan_capacity = 0
    /\ m_queue = <<>>
    /\ m_mutex = 0
    /\ m_cond_not_empty = {}
    /\ m_cond_not_full = {}
    /\ th = <<>>
    /\ owning = FALSE

\* push(): the predicate of m_cond_not_full.wait
NotFullOffByOne(size, cap) == cap = 0 \/ size <= cap
NotFull(size, cap) == cap = 0 \/ size < cap

\* pop(), peek(): the predicate of m_cond_not_empty.wait
NotEmpty(size) == size # 0

\* T item = std::move(m_queue.front()): the states the front item may be left
\* in.  A type whose move constructor copies leaves it as it was; a type that
\* owns storage (std::string, or a Token holding one) is left valid but
\* unspecified: as it was, or emptied.
MovedFrom(item) ==
    IF owning THEN {item, [item EXCEPT !.moved = TRUE]} ELSE {item}

\* std::condition_variable::notify_one on the wait set ws: the wait set after
\* the call and the thread woken (0: none was waiting).
PopNotifiesNobody(ws) == {[ws |-> ws, woken |-> 0]}
NotifyOne(ws) ==
    IF ws = {} THEN {[ws |-> ws, woken |-> 0]}
    ELSE {[ws |-> ws \ {w}, woken |-> w] : w \in ws}

\* pop(): m_cond_not_full.notify_one()
PopNotifies(ws) == NotifyOne(ws)

\* A woken thread leaves wait() by locking the mutex again.
Relock(pc) ==
    CASE pc = "push_blocked" -> "push_lock"
      [] pc = "pop_blocked" -> "pop_lock"
      [] pc = "peek_blocked" -> "peek_lock"

Wake(w) == IF w = 0 THEN th
           ELSE [th EXCEPT ![w].pc = Relock(@)]

\* A thread enters push(p_item).
ChanCallPush(t) ==
    /\ t \in Producers
    /\ th[t].pc = "idle"
    /\ chan_capacity = 0 =>
          Len(m_queue) + Cardinality({p \in Producers : th[p].pc # "idle"}) < MaxQueue
    /\ th' = [th EXCEPT ![t] = [ThreadIdle EXCEPT !.pc = "push_lock",
                                                  !.item = [v |-> t, moved |-> FALSE]]]
    /\ UNCHANGED <<chan_capacity, m_queue, m_mutex, m_cond_not_empty, m_cond_not_full, owning>>
    /\ ChanFrame

\* A thread enters pop().
ChanCallPop(t) ==
    /\ t \in Consumers
    /\ th[t].pc = "idle"
    /\ th' = [th EXCEPT ![t] = [ThreadIdle EXCEPT !.pc = "pop_lock"]]
    /\ UNCHANGED <<chan_capacity, m_queue, m_mutex, m_cond_not_empty, m_cond_not_full, owning>>
    /\ ChanFrame

\* A thread enters peek().
ChanCallPeek(t) ==
    /\ t \in Consumers
    /\ th[t].pc = "idle"
    /\ th' = [th EXCEPT ![t] = [ThreadIdle EXCEPT !.pc = "peek_lock"]]
    /\ UNCHANGED <<chan_capacity, m_queue, m_mutex, m_cond_not_empty, m_cond_not_full, owning>>
    /\ ChanFrame

\* std::unique_lock<std::mutex> lock(m_mutex), and the lock taken again by a
\* thread that wait() has woken.
ChanLock(t) ==
    /\ th[t].pc \in {"push_lock", "pop_lock", "peek_lock"}
    /\ m_mutex = 0
    /\ m_mutex' = t
    /\ th' = [th EXCEPT ![t].pc = CASE @ = "push_lock" -> "push_locked"
                                    [] @ = "pop_lock" -> "pop_locked"
                                    [] @ = "peek_lock" -> "peek_locked"]
    /\ UNCHANGED <<chan_capacity, m_queue, m_cond_not_empty, m_cond_not_full, owning>>
    /\ ChanFrame

\* push() with the mutex held:
\*   m_cond_not_full.wait(lock, pred); m_queue.push(p_item); lock.unlock();
\* When the predicate fails, wait() releases the mutex and blocks the thread.
ChanPushLocked(t) ==
    /\ th[t].pc = "push_locked"
    /\ m_mutex' = 0
    /\ IF NotFull(Len(m_queue), chan_capacity)
       THEN /\ m_queue' = Append(m_queue, th[t].item)
            /\ th' = [th EXCEPT ![t].pc = "push_notify"]
            /\ UNCHANGED m_cond_not_full
       ELSE /\ th' = [th EXCEPT ![t].pc = "push_blocked", ![t].room = FALSE]
            /\ m_cond_not_full' = m_cond_not_full \cup {t}
            /\ UNCHANGED m_queue
    /\ UNCHANGED <<chan_capacity, m_cond_not_empty, owning>>
    /\ ChanFrame

\* push(): m_cond_not_empty.notify_one(); and the return.
ChanPushNotify(t) ==
    /\ th[t].pc = "push_notify"
    /\ \E n \in NotifyOne(m_cond_not_empty) :
          /\ m_cond_not_empty' = n.ws
          /\ th' = [Wake(n.woken) EXCEPT ![t] = ThreadIdle]
    /\ UNCHANGED <<chan_capacity, m_queue, m_mutex, m_cond_not_full, owning>>
    /\ ChanFrame

\* pop() with the mutex held:
\*   m_cond_not_empty.wait(lock, pred); m_queue.pop(); lock.unlock();
ChanPopLocked(t) ==
    /\ th[t].pc = "pop_locked"
    /\ m_mutex' = 0
    /\ IF NotEmpty(Len(m_queue))
       THEN /\ m_queue' = Tail(m_queue)
            /\ th' = [u \in Threads |->
                         IF u = t THEN [th[u] EXCEPT !.pc = "pop_notify"]
                         ELSE IF th[u].pc = "push_blocked"
                              THEN [th[u] EXCEPT !.room = TRUE]
                              ELSE th[u]]
            /\ UNCHANGED m_cond_not_empty
       ELSE /\ th' = [th EXCEPT ![t].pc = "pop_blocked"]
            /\ m_cond_not_empty' = m_cond_not_empty \cup {t}
            /\ UNCHANGED m_queue
    /\ UNCHANGED <<chan_capacity, m_cond_not_full, owning>>
    /\ ChanFrame

\* pop(): m_cond_not_full.notify_one(); and the return.
ChanPopNotify(t) ==
    /\ th[t].pc = "pop_notify"
    /\ \E n \in PopNotifies(m_cond_not_full) :
          /\ m_cond_not_full' = n.ws
          /\ th' = [Wake(n.woken) EXCEPT ![t] = ThreadIdle]
    /\ UNCHANGED <<chan_capacity, m_queue, m_mutex, m_cond_not_empty, owning>>
    /\ ChanFrame

\* peek() with the mutex held:
\*   m_cond_not_empty.wait(lock, pred); T item = std::move(m_queue.front());
\*   lock.unlock();
ChanPeekLocked(t) ==
    /\ th[t].pc = "peek_locked"
    /\ m_mutex' = 0
    /\ IF NotEmpty(Len(m_queue))
       THEN /\ \E f \in MovedFrom(Head(m_queue)) :
                  /\ m_queue' = [m_queue EXCEPT ![1] = f]
                  /\ th' = [th EXCEPT ![t].pc = "peek_ret",
                                      ![t].item = Head(m_queue)]
            /\ UNCHANGED m_cond_not_empty
       ELSE /\ th' = [th EXCEPT ![t].pc = "peek_blocked"]
            /\ m_cond_not_empty' = m_cond_not_empty \cup {t}
            /\ UNCHANGED m_queue
    /\ UNCHANGED <<chan_capacity, m_cond_not_full, owning>>
    /\ ChanFrame

\* peek(): return item;
ChanPeekReturn(t) ==
    /\ th[t].pc = "peek_ret"
    /\ th' = [th EXCEPT ![t] = ThreadIdle]
    /\ UNCHANGED <<chan_capacity, m_queue, m_mutex, m_cond_not_empty, m_cond_not_full, owning>>
    /\ ChanFrame

\* std::condition_variable::wait may return without a notification.
ChanSpuriousWake(t) ==
    /\ t \in m_cond_not_empty \cup m_cond_not_full
    /\ m_cond_not_empty' = m_cond_not_empty \ {t}
    /\ m_cond_not_full' = m_cond_not_full \ {t}
    /\ th' = Wake(t)
    /\ UNCHANGED <<chan_capacity, m_queue, m_mutex, owning>>
    /\ ChanFrame

\* The values of the ring buffer's variables while no ring buffer is in use.
RingUnused ==
    /\ m_capacity = 1
    /\ m_buffer = NewBuffer(1, 0)
    /\ m_head = 0
    /\ m_tail = 0
    /\ pp = ProducerIdle
    /\ cc = ConsumerIdle
    /\ accepted = <<>>
    /\ observed = <<>>
    /\ npush = 0

InitChan ==
    /\ chan_capacity \in 0..MaxChanCapacity
    /\ m_queue = <<>>
    /\ m_mutex = 0
    /\ m_cond_not_empty = {}
    /\ m_cond_not_full = {}
    /\ th = [t \in Threads |-> ThreadIdle]
    /\ owning \in BOOLEAN
    /\ RingUnused
    /\ PipeUnused
    /\ DocUnused
    /\ TokUnused
    /\ UtilUnused

NextChan ==
    \/ \E t \in Threads : ChanCallPush(t)
    \/ \E t \in Threads : ChanCallPop(t)
    \/ \E t \in Threads : ChanCallPeek(t)
    \/ \E t \in Threads : ChanLock(t)
    \/ \E t \in Threads : ChanPushLocked(t)
    \/ \E t \in Threads : ChanPushNotify(t)
    \/ \E t \in Threads : ChanPopLocked(t)
    \/ \E t \in Threads : ChanPopNotify(t)
    \/ \E t \in Threads : ChanPeekLocked(t)
    \/ \E t \in Threads : ChanPeekReturn(t)
    \/ \E t \in Threads : ChanSpuriousWake(t)

SpecChan == InitChan /\ [][NextChan]_vars

\* Every thread inside a call keeps running, and a thread that tries to lock
\* the mutex gets it if it is free again and again.  Nothing obliges a thread
\* to make another call, nor a wait to return without a notification.
ThreadStep(t) ==
    \/ ChanPushLocked(t) \/ ChanPushNotify(t)
    \/ ChanPopLocked(t) \/ ChanPopNotify(t)
    \/ ChanPeekLocked(t) \/ ChanPeekReturn(t)

\* Blocking and waking do not depend on what the items are: the items of the
\* fair specification are of a type whose move constructor copies.
InitChanFair == InitChan /\ ~owning

FairSpecChan ==
    /\ InitChanFair
    /\ [][NextChan]_vars
    /\ \A t \in Threads : WF_vars(ThreadStep(t))
    /\ \A t \in Threads : SF_vars(ChanLock(t))

\* ------------------------------------------------------------------------
\* Tokenizer
\* ------------------------------------------------------------------------
\* A text is a sequence of characters; m_pos counts from 0 as in the code.
Digits == {"0", "1", "2", "3", "4", "5", "6", "7", "8", "9"}
WhiteSpace == {"\n", "\t", "\r", " "}

Token(type, value) == [type |-> type, value |-> value]

\* A value-initialised Token: the first enumerator and an empty view.
DefaultToken == Token("ObjectBegin", <<>>)

NoError == <<>>
ParseException(line, column) ==
    <<[kind |-> "ParseException", line |-> line, column |-> column]>>
Exception == <<[kind |-> "Exception", line |-> 0, column |-> 0]>>
TypeException == <<[kind |-> "TypeException", line |-> 0, column |-> 0]>>

\* bool eof() const
EofBeforeLast(str, t) == t.m_pos + 1 >= Len(str)
Eof(str, t) == t.m_pos >= Len(str)
\* char peek_char() const
PeekChar(str, t) == str[t.m_pos + 1]
\* char get_char(): column++, m_str[m_pos++]
GetChar(t) == [t EXCEPT !.m_pos = @ + 1, !.column = @ + 1]
\* m_pos += n; column += n;
Advance(t, n) == [t EXCEPT !.m_pos = @ + n, !.column = @ + n]

\* std::string_view(m_str.data() + from, len)
View(str, from, len) == SubSeq(str, from + 1, from + len)

RECURSIVE SkipWhiteSpace(_, _)
SkipWhiteSpace(str, t) ==
    IF ~Eof(str, t) /\ PeekChar(str, t) \in WhiteSpace
    THEN IF PeekChar(str, t) = "\n"
         THEN SkipWhiteSpace(str, [GetChar(t) EXCEPT !.line = @ + 1, !.column = 1])
         ELSE SkipWhiteSpace(str, GetChar(t))
    ELSE t

\* while (!eof() && isdigit(peek_char())) get_char();
RECURSIVE SkipDigits(_, _)
SkipDigits(str, t) ==
    IF ~Eof(str, t) /\ PeekChar(str, t) \in Digits
    THEN SkipDigits(str, GetChar(t))
    ELSE t

\* The result of a scan: the tokenizer after it, with the token in
\* m_current_token, or with the exception thrown in err (and m_current_token
\* as it was).
Scanned(t, type, value) == [t EXCEPT !.m_current_token = Token(type, value)]
Thrown(t) == [t EXCEPT !.err = ParseException(t.line, t.column)]

ParseNumber(str, t) ==
    LET start_pos == t.m_pos
        t1 == IF ~Eof(str, t) /\ PeekChar(str, t) = "-" THEN GetChar(t) ELSE t
        t2 == SkipDigits(str, t1)
        is_float == ~Eof(str, t2) /\ PeekChar(str, t2) = "."
        t3 == IF is_float THEN SkipDigits(str, GetChar(t2)) ELSE t2
    IN  Scanned(t3, IF is_float THEN "Float" ELSE "Integer",
                View(str, start_pos, t3.m_pos - start_pos))

\* The loop of parse_string, from the character after the opening quote.
RECURSIVE ScanString(_, _, _)
ScanString(str, t, start_pos_content) ==
    IF Eof(str, t) THEN Thrown(t)
    ELSE LET ch == PeekChar(str, t) IN
         IF ch = "\\"
         THEN LET t1 == GetChar(t) IN
              ScanString(str, IF ~Eof(str, t1) THEN GetChar(t1) ELSE t1,
                         start_pos_content)
         ELSE IF ch = "\""
         THEN Scanned(GetChar(t), "String",
                      View(str, start_pos_content, t.m_pos - start_pos_content))
         ELSE ScanString(str, GetChar(t), start_pos_content)

ParseString(str, t) ==
    LET t1 == GetChar(t) IN ScanString(str, t1, t1.m_pos)

\* m_str.size() - start_pos >= n && string_view(m_str.data() + start_pos, n) == lit
Matches(str, t, lit) ==
    /\ Len(str) - t.m_pos >= Len(lit)
    /\ View(str, t.m_pos, Len(lit)) = lit

ParseBool(str, t) ==
    IF Matches(str, t, <<"t", "r", "u", "e">>)
    THEN Scanned(Advance(t, 4), "Bool", View(str, t.m_pos, 4))
    ELSE IF Matches(str, t, <<"f", "a", "l", "s", "e">>)
    THEN Scanned(Advance(t, 5), "Bool", View(str, t.m_pos, 5))
    ELSE Thrown(t)

ParseNull(str, t) ==
    IF Matches(str, t, <<"n", "u", "l", "l">>)
    THEN Scanned(Advance(t, 4), "Null", View(str, t.m_pos, 4))
    ELSE Thrown(t)

Punctuation(ch) ==
    CASE ch = "{" -> "ObjectBegin"
      [] ch = "}" -> "ObjectEnd"
      [] ch = "[" -> "ArrayBegin"
      [] ch = "]" -> "ArrayEnd"
      [] ch = ":" -> "Colon"
      [] ch = "," -> "Comma"

\* Token read_next_token(), and consume(): m_current_token = read_next_token()
ReadNextToken(str, t) ==
    LET t1 == SkipWhiteSpace(str, t) IN
    IF Eof(str, t1) THEN Scanned(t1, "End", <<>>)
    ELSE LET current_ch == PeekChar(str, t1) IN
         IF current_ch \in {"{", "}", "[", "]", ":", ","}
         THEN Scanned(GetChar(t1), Punctuation(current_ch), View(str, t1.m_pos, 1))
         ELSE IF current_ch = "\"" THEN ParseString(str, t1)
         ELSE IF current_ch \in {"t", "f"} THEN ParseBool(str, t1)
         ELSE IF current_ch = "n" THEN ParseNull(str, t1)
         ELSE IF current_ch \in Digits \/ current_ch = "-" THEN ParseNumber(str, t1)
         ELSE Thrown(t1)

\* A consume() that reads two tokens where the code reads one.
TokenizerConsumeTwice(str, t) == ReadNextToken(str, ReadNextToken(str, t))
TokenizerConsume(str, t) == ReadNextToken(str, t)

\* Tokenizer(const std::string &p_str): m_pos(0), line(1), column(1), consume()
NewTokenizer(str) ==
    TokenizerConsume(str, [m_pos |-> 0, line |-> 1, column |-> 1,
                           m_current_token |-> DefaultToken, err |-> NoError])

\* const Token peek() const
TokenizerPeek(t) == t.m_current_token

\* The first index at or after p, counted from 0, that holds no white space.
FirstNonWs(str, p) ==
    CHOOSE i \in p..Len(str) :
        /\ i = Len(str) \/ str[i + 1] \notin WhiteSpace
        /\ \A j \in p..(i - 1) : str[j + 1] \in WhiteSpace

\* The index of the first quote of w at or after i that no backslash
\* escapes, 0 when there is none.
RECURSIVE ClosingQuote(_, _)
ClosingQuote(w, i) ==
    IF i > Len(w) THEN 0
    ELSE IF w[i] = "\\" THEN ClosingQuote(w, i + 2)
    ELSE IF w[i] = "\"" THEN i
    ELSE ClosingQuote(w, i + 1)

\* Whether the characters w are one token of the kind type.
OneToken(w, type) ==
    CASE type \in {"ObjectBegin", "ObjectEnd", "ArrayBegin", "ArrayEnd", "Colon", "Comma"} ->
             Len(w) = 1 /\ Punctuation(w[1]) = type
      [] type = "String" ->
             Len(w) >= 2 /\ w[1] = "\"" /\ ClosingQuote(w, 2) = Len(w)
      [] type \in {"Integer", "Float"} ->
             /\ w[1] \in Digits \cup {"-"}
             /\ \A i \in 2..Len(w) : w[i] \in Digits \cup {"."}
             /\ Cardinality({i \in DOMAIN w : w[i] = "."}) = (IF type = "Float" THEN 1 ELSE 0)
      [] type = "Bool" -> w \in {<<"t", "r", "u", "e">>, <<"f", "a", "l", "s", "e">>}
      [] type = "Null" -> w = <<"n", "u", "l", "l">>
      [] OTHER -> FALSE

\* ------------------------------------------------------------------------
\* The tree: Value, Array, Object
\* ------------------------------------------------------------------------
\* One record shape for every Element; the fields a kind does not use keep
\* their defaults.  A float is the decimal it was read from, <<mantissa,
\* scale>> with value mantissa / 10^scale, reduced to its shortest form
\* (the texts of the model have too few digits for two decimals to round
\* to the same float).
Element == [kind |-> "Null", b |-> FALSE, i |-> 0, f |-> <<0, 0>>, s |-> <<>>,
            m_arr |-> <<>>, m_obj |-> <<>>]

NullValue == Element
BoolValue(b) == [Element EXCEPT !.kind = "Bool", !.b = b]
IntValue(i) == [Element EXCEPT !.kind = "Int", !.i = i]
FloatValue(f) == [Element EXCEPT !.kind = "Float", !.f = f]
StringValue(s) == [Element EXCEPT !.kind = "String", !.s = s]
NewArray == [Element EXCEPT !.kind = "Array"]
NewObject == [Element EXCEPT !.kind = "Object"]

\* The number of nodes of a tree: what "delete root" releases.
RECURSIVE NodeCount(_)
SumOver(f, n) ==
    LET RECURSIVE Sum(_)
        Sum(keys) == IF keys = {} THEN 0
                     ELSE LET k == CHOOSE x \in keys : TRUE
                          IN  n[k] + Sum(keys \ {k})
    IN  Sum(DOMAIN f)
NodeCount(node) ==
    1 + SumOver(node.m_arr, [i \in DOMAIN node.m_arr |-> NodeCount(node.m_arr[i])])
      + SumOver(node.m_obj, [k \in DOMAIN node.m_obj |-> NodeCount(node.m_obj[k])])

\* void append_raw_ptr(Element *child) { m_arr.push_back(child); }
AppendRawPtr(arr, child) == [arr EXCEPT !.m_arr = Append(@, child)]

\* void insert_raw_ptr(key, child): the old value of the key, if any, is
\* deleted and m_obj[p_key] = child.
InsertRawPtr(obj, p_key, child) ==
    [obj EXCEPT !.m_obj = [k \in (DOMAIN @) \cup {p_key} |->
                              IF k = p_key THEN child ELSE @[k]]]

\* ------------------------------------------------------------------------
\* Conversions of number tokens
\* ------------------------------------------------------------------------
DigitValue(ch) ==
    CASE ch = "0" -> 0 [] ch = "1" -> 1 [] ch = "2" -> 2 [] ch = "3" -> 3
      [] ch = "4" -> 4 [] ch = "5" -> 5 [] ch = "6" -> 6 [] ch = "7" -> 7
      [] ch = "8" -> 8 [] ch = "9" -> 9

RECURSIVE Decimal(_)
Decimal(digits) ==
    IF digits = <<>> THEN 0
    ELSE 10 * Decimal(SubSeq(digits, 1, Len(digits) - 1))
         + DigitValue(digits[Len(digits)])

IntMax == 2147483647
IntMin == -IntMax - 1

Negative(value) == value # <<>> /\ value[1] = "-"
Unsigned(value) == IF Negative(value) THEN Tail(value) ELSE value

\* The digits before and after the '.' of a Float token (the sign removed).
RECURSIVE IntegerPart(_)
IntegerPart(chars) ==
    IF chars = <<>> \/ chars[1] = "." THEN <<>>
    ELSE <<chars[1]>> \o IntegerPart(Tail(chars))
FractionPart(chars) ==
    SubSeq(chars, Len(IntegerPart(chars)) + 2, Len(chars))

\* std::from_chars(first, last, int &): an optional '-', then digits.  No
\* digit: errc::invalid_argument; out of the range of int:
\* errc::result_out_of_range.
FromChars(value) ==
    LET digits == Unsigned(value)
        val == IF Negative(value) THEN -Decimal(digits) ELSE Decimal(digits)
    IN  IF digits = <<>> \/ val < IntMin \/ val > IntMax
        THEN [ok |-> FALSE, val |-> 0]
        ELSE [ok |-> TRUE, val |-> val]

\* std::atoi(const char *): an optional sign, then digits; 0 when there is
\* no digit.  (Out of the range of int the behaviour is undefined; the
\* texts of the model are too short to get there.)
Atoi(value) ==
    IF Negative(value) THEN -Decimal(Unsigned(value)) ELSE Decimal(Unsigned(value))

RECURSIVE Reduce(_, _)
Reduce(mantissa, scale) ==
    IF mantissa = 0 THEN <<0, 0>>
    ELSE IF scale > 0 /\ mantissa % 10 = 0 THEN Reduce(mantissa \div 10, scale - 1)
    ELSE <<mantissa, scale>>

\* std::stof(const std::string &): an optional '-', digits, '.', digits.
\* std::invalid_argument when there is no digit at all.
Stof(value) ==
    LET chars == Unsigned(value)
        digits == IntegerPart(chars) \o FractionPart(chars)
        magnitude == Decimal(digits)
    IN  IF digits = <<>>
        THEN [ok |-> FALSE, val |-> <<0, 0>>]
        ELSE [ok |-> TRUE,
              val |-> IF Negative(value)
                      THEN Reduce(-magnitude, Len(FractionPart(chars)))
                      ELSE Reduce(magnitude, Len(FractionPart(chars)))]

\* ------------------------------------------------------------------------
\* Parser: recursive descent over peek() and consume()
\* ------------------------------------------------------------------------
\* The parser is a step machine: ctl is the statement it is at, each step is
\* one call of peek() or of consume(), and stack holds the activations of
\* parse_object / parse_array that are waiting for a value.  The same
\* machine runs over the Tokenizer directly (synchronous mode) and over the
\* ring buffer (pipeline mode).
PeekStates == {"value", "obj_first", "obj_key", "obj_colon", "obj_next",
               "arr_first", "arr_next"}
ConsumeStates == {"obj_open", "arr_open", "scalar", "float", "obj_close",
                  "arr_close", "obj_key_c", "obj_colon_c", "obj_comma_c",
                  "arr_comma_c"}

\* live counts the nodes this parse has allocated (new Value, new Object,
\* new Array) and not deleted.
NewParser == [ctl |-> "value", stack |-> <<>>, val |-> NullValue,
              result |-> NullValue, err |-> NoError, live |-> 0]

\* throw ...: the exception leaves parse_value and every activation above it.
Throw(p, e) == [p EXCEPT !.ctl = "error", !.err = e]

Top(p) == p.stack[Len(p.stack)]
Pop(p) == SubSeq(p.stack, 1, Len(p.stack) - 1)
Push(p, node) == Append(p.stack, [node |-> node, key |-> <<>>])

\* insert_raw_ptr: "if (it != m_obj.end()) delete it->second;" releases the
\* tree stored under the key.
Replaced(obj, p_key) ==
    IF p_key \in DOMAIN obj.m_obj THEN NodeCount(obj.m_obj[p_key]) ELSE 0

\* "return v" of parse_value: to the caller of parse_value, which is
\* parse(), parse_object (insert_raw_ptr) or parse_array (append_raw_ptr).
Return(p, v) ==
    IF p.stack = <<>> THEN [p EXCEPT !.ctl = "done", !.result = v]
    ELSE IF Top(p).node.kind = "Object"
    THEN [p EXCEPT !.ctl = "obj_next",
                   !.stack[Len(p.stack)].node = InsertRawPtr(@, Top(p).key, v),
                   !.live = @ - Replaced(Top(p).node, Top(p).key)]
    ELSE [p EXCEPT !.ctl = "arr_next",
                   !.stack[Len(p.stack)].node = AppendRawPtr(@, v)]

\* case TokenType::Integer of parse_value, up to its consume()
ParseInteger(mode, p, token) ==
    IF mode = "sync"
    THEN LET r == FromChars(token.value) IN
         IF r.ok THEN [p EXCEPT !.ctl = "scalar", !.val = IntValue(r.val)]
         ELSE Throw(p, Exception)
    ELSE [p EXCEPT !.ctl = "scalar", !.val = IntValue(Atoi(token.value))]

\* case TokenType::Float of parse_value, up to its consume(): std::stof in
\* the synchronous parser, (float)std::stod in the pipeline's.
ParseFloat(p, token) ==
    LET r == Stof(token.value) IN
    IF r.ok THEN [p EXCEPT !.ctl = "float", !.val = FloatValue(r.val)]
    ELSE Throw(p, Exception)

\* Element *parse_value(), up to the first consume()
ParseValue(mode, p, token) ==
    CASE token.type = "ObjectBegin" -> [p EXCEPT !.ctl = "obj_open"]
      [] token.type = "ArrayBegin" -> [p EXCEPT !.ctl = "arr_open"]
      [] token.type = "Integer" -> ParseInteger(mode, p, token)
      [] token.type = "Float" -> ParseFloat(p, token)
      [] token.type = "Bool" ->
            [p EXCEPT !.ctl = "scalar", !.val = BoolValue(token.value[1] = "t")]
      [] token.type = "String" ->
            [p EXCEPT !.ctl = "scalar", !.val = StringValue(token.value)]
      [] token.type = "Null" -> [p EXCEPT !.ctl = "scalar", !.val = NullValue]
      [] OTHER -> Throw(p, TypeException)

\* The statements of parse_object and parse_array that follow a peek().
ParseObject(p, token) ==
    CASE p.ctl = "obj_first" ->
            IF token.type = "ObjectEnd" THEN [p EXCEPT !.ctl = "obj_close"]
            ELSE [p EXCEPT !.ctl = "obj_key"]
      [] p.ctl = "obj_key" ->
            IF token.type # "String" THEN Throw(p, Exception)
            ELSE [p EXCEPT !.ctl = "obj_key_c",
                           !.stack[Len(p.stack)].key = token.value]
      [] p.ctl = "obj_colon" ->
            IF token.type # "Colon" THEN Throw(p, Exception)
            ELSE [p EXCEPT !.ctl = "obj_colon_c"]
      [] p.ctl = "obj_next" ->
            IF token.type = "ObjectEnd" THEN [p EXCEPT !.ctl = "obj_close"]
            ELSE IF token.type = "Comma" THEN [p EXCEPT !.ctl = "obj_comma_c"]
            ELSE Throw(p, Exception)

ParseArray(p, token) ==
    CASE p.ctl = "arr_first" ->
            IF token.type = "ArrayEnd" THEN [p EXCEPT !.ctl = "arr_close"]
            ELSE [p EXCEPT !.ctl = "value"]
      [] p.ctl = "arr_next" ->
            IF token.type = "ArrayEnd" THEN [p EXCEPT !.ctl = "arr_close"]
            ELSE IF token.type = "Comma" THEN [p EXCEPT !.ctl = "arr_comma_c"]
            ELSE Throw(p, Exception)

\* The parser after peek() has returned token.
OnPeek(mode, p, token) ==
    IF p.ctl = "value" THEN ParseValue(mode, p, token)
    ELSE IF p.ctl \in {"arr_first", "arr_next"} THEN ParseArray(p, token)
    ELSE ParseObject(p, token)

\* The parser after consume() has returned.
OnConsumed(p) ==
    CASE p.ctl = "obj_open" ->
            [p EXCEPT !.ctl = "obj_first", !.stack = Push(p, NewObject),
                      !.live = @ + 1]
      [] p.ctl = "arr_open" ->
            [p EXCEPT !.ctl = "arr_first", !.stack = Push(p, NewArray),
                      !.live = @ + 1]
      [] p.ctl \in {"scalar", "float"} ->
            Return([p EXCEPT !.live = @ + 1], p.val)
      [] p.ctl \in {"obj_close", "arr_close"} ->
            Return([p EXCEPT !.stack = Pop(p)], Top(p).node)
      [] p.ctl = "obj_key_c" -> [p EXCEPT !.ctl = "obj_colon"]
      [] p.ctl = "obj_colon_c" -> [p EXCEPT !.ctl = "value"]
      [] p.ctl = "obj_comma_c" -> [p EXCEPT !.ctl = "obj_key"]
      [] p.ctl = "arr_comma_c" -> [p EXCEPT !.ctl = "value"]

\* The parser after consume() has thrown e: the consume() of a Float is
\* inside "try { ... } catch (...) { throw Exception("Invalid float") }".
OnConsumeThrown(p, e) ==
    IF p.ctl = "float" THEN Throw(p, Exception) ELSE Throw(p, e)

\* ------------------------------------------------------------------------
\* A free-running producer and consumer on one ring buffer
\* ------------------------------------------------------------------------
\* The producer pushes the items 1, 2, 3, ... : every attempt offers a fresh
\* item, so an item lost, duplicated or reordered shows in the histories.
RingCallPush ==
    /\ pp.pc = "idle"
    /\ npush < MaxPush
    /\ npush' = npush + 1
    /\ pp' = CallPush(npush + 1)
    /\ UNCHANGED <<m_capacity, m_buffer, m_head, m_tail, cc, accepted, observed>>
    /\ RingFrame

RingPushReturn ==
    /\ pp.pc = "push_ret"
    /\ pp' = [pp EXCEPT !.pc = "idle"]
    /\ UNCHANGED <<m_capacity, m_buffer, m_head, m_tail, cc, accepted, observed, npush>>
    /\ RingFrame

RingCallPeek ==
    /\ cc.pc = "idle"
    /\ cc' = CallPeek
    /\ UNCHANGED <<m_capacity, m_buffer, m_head, m_tail, pp, accepted, observed, npush>>
    /\ RingFrame

RingCallPop ==
    /\ cc.pc = "idle"
    /\ cc' = CallPop
    /\ UNCHANGED <<m_capacity, m_buffer, m_head, m_tail, pp, accepted, observed, npush>>
    /\ RingFrame

RingConsumerReturn ==
    /\ cc.pc \in {"peek_ret", "pop_ret"}
    /\ cc' = [cc EXCEPT !.pc = "idle"]
    /\ UNCHANGED <<m_capacity, m_buffer, m_head, m_tail, pp, accepted, observed, npush>>
    /\ RingFrame

InitRing ==
    /\ m_capacity \in 1..MaxCapacity
    /\ m_buffer = NewBuffer(m_capacity, 0)
    /\ m_head = 0
    /\ m_tail = 0
    /\ pp = ProducerIdle
    /\ cc = ConsumerIdle
    /\ accepted = <<>>
    /\ observed = <<>>
    /\ npush = 0
    /\ ChanUnused
    /\ PipeUnused
    /\ DocUnused
    /\ TokUnused
    /\ UtilUnused

NextRing ==
    \/ RingCallPush
    \/ PushLoadTail
    \/ PushCheckFull
    \/ PushWriteBegin
    \/ PushWriteEnd
    \/ PushStoreTail
    \/ RingPushReturn
    \/ RingCallPeek
    \/ PeekLoadHead
    \/ PeekCheckEmpty
    \/ PeekRead
    \/ RingCallPop
    \/ PopLoadHead
    \/ PopCheckEmpty
    \/ PopStoreHead
    \/ RingConsumerReturn

SpecRing == InitRing /\ [][NextRing]_vars

\* ------------------------------------------------------------------------
\* The two parsers on one text: synchronous, then the ring-buffer pipeline
\* ------------------------------------------------------------------------
\* The texts that are parsed.
Inputs ==
    { <<"1">>,
      <<"-">>,
      <<"@">>,
      <<"]">>,
      <<"[", "1">>,
      <<"[", "@">>,
      <<"[", "1", "]">>,
      <<"[", "1", ",", "2", "]">>,
      <<"[", "[", "]", ",", "t", "r", "u", "e", "]">>,
      <<"{", "}">>,
      <<"{", "\"", "a", "\"", ":", "1", "}">>,
      <<"{", "\"", "a", "\"", ":", "n", "u", "l", "l", ",", "\"", "a", "\"", ":", "2", "}">>,
      <<"{", "\"", "a", "\"", "1">>,
      <<"1", ".", "5">>,
      <<"1", ".", "5", "@">>,
      <<"[", "-", ".", "]">>,
      <<"1", " ", "2", " ", "@">>,
      <<"1", " ", "2", " ", "3">>,
      <<"[", "\n", "\"", "a">>,
      <<"{", "\"", "a", "\"", ":", "}">> }

NoOutcome == [status |-> "none", tree |-> NullValue, err |-> NoError,
              lex |-> NoError, live |-> 0]

\* How a parse that ran to its end ended: with a tree, or with the exception
\* that left parse(); lex is the exception the Tokenizer threw, if it did.
Outcome(p, t) == [status |-> IF p.ctl = "done" THEN "tree" ELSE "error",
                  tree |-> p.result, err |-> p.err, lex |-> t.err,
                  live |-> p.live]

\* Parser(const std::string &p_str) : m_tokenizer(p_str)
\* An exception of the Tokenizer's constructor leaves the Parser's.
SyncParser(t) == IF t.err # NoError THEN Throw(NewParser, t.err) ELSE NewParser

SyncRunning == syncOut.status = "none"

\* Token peek() { return m_tokenizer.peek(); }
SyncPeek ==
    /\ SyncRunning
    /\ ps.ctl \in PeekStates
    /\ ps' = OnPeek("sync", ps, TokenizerPeek(tk))
    /\ UNCHANGED <<input, tk, syncOut, prod, par, joined>>
    /\ UNCHANGED ringVars
    /\ PipeFrame

\* void consume() { m_tokenizer.consume(); }
SyncConsume ==
    /\ SyncRunning
    /\ ps.ctl \in ConsumeStates
    /\ tk' = TokenizerConsume(input, tk)
    /\ ps' = IF tk'.err # NoError THEN OnConsumeThrown(ps, tk'.err)
             ELSE OnConsumed(ps)
    /\ UNCHANGED <<input, syncOut, prod, par, joined>>
    /\ UNCHANGED ringVars
    /\ PipeFrame

\* Ref parse() { return Ref(parse_value()); }
SyncReturn ==
    /\ SyncRunning
    /\ ps.ctl \in {"done", "error"}
    /\ syncOut' = Outcome(ps, tk)
    /\ UNCHANGED <<input, tk, ps, prod, par, joined>>
    /\ UNCHANGED ringVars
    /\ PipeFrame

\* The pipeline is running: parse() has not ended and std::terminate has
\* not been called.
Alive == par = "running"

\* Tokenizer tokenizer(text); Parser parser(&tokenizer, capacity);
\* parser.parse(): std::thread producer_thread(...)
PipeStart ==
    /\ ~SyncRunning
    /\ par = "idle"
    /\ tk' = NewTokenizer(input)
    /\ IF tk'.err # NoError
       THEN /\ par' = "ctor_threw"
            /\ UNCHANGED <<ps, prod>>
       ELSE /\ par' = "running"
            /\ ps' = NewParser
            /\ prod' = [prod EXCEPT !.pc = "peek"]
    /\ UNCHANGED <<input, syncOut, joined>>
    /\ UNCHANGED ringVars
    /\ PipeFrame

\* Producer thread: Token token = m_tokenizer->peek();
\* if (token.type == TokenType::End) break; else the first m_buffer.push(token)
ProducerPeek ==
    /\ Alive
    /\ prod.pc = "peek"
    /\ LET token == TokenizerPeek(tk) IN
       IF token.type = "End"
       THEN /\ prod' = [prod EXCEPT !.pc = "done"]
            /\ UNCHANGED pp
       ELSE /\ prod' = [pc |-> "push", token |-> token]
            /\ pp' = CallPush(token)
    /\ UNCHANGED <<input, tk, ps, syncOut, par, joined>>
    /\ UNCHANGED <<m_capacity, m_buffer, m_head, m_tail, cc, accepted, observed, npush>>
    /\ PipeFrame

\* Producer thread: while (!m_buffer.push(token)) std::this_thread::yield();
ProducerPushReturn ==
    /\ Alive
    /\ prod.pc = "push"
    /\ pp.pc = "push_ret"
    /\ IF pp.ret
       THEN /\ pp' = [pp EXCEPT !.pc = "idle"]
            /\ prod' = [prod EXCEPT !.pc = "consume"]
       ELSE /\ pp' = CallPush(prod.token)
            /\ UNCHANGED prod
    /\ UNCHANGED <<input, tk, ps, syncOut, par, joined>>
    /\ UNCHANGED <<m_capacity, m_buffer, m_head, m_tail, cc, accepted, observed, npush>>
    /\ PipeFrame

\* Producer thread: m_tokenizer->consume();  An exception is caught, and
\* "throw ThreadException(e.what())" leaves the thread's function:
\* std::terminate is called.
ProducerConsume ==
    /\ Alive
    /\ prod.pc = "consume"
    /\ tk' = TokenizerConsume(input, tk)
    /\ IF tk'.err # NoError
       THEN /\ prod' = [prod EXCEPT !.pc = "threw"]
            /\ par' = "terminated"
       ELSE /\ prod' = [prod EXCEPT !.pc = "peek"]
            /\ UNCHANGED par
    /\ UNCHANGED <<input, ps, syncOut, joined>>
    /\ UNCHANGED ringVars
    /\ PipeFrame

\* Parser::peek(): while (!(token = m_buffer.peek()).has_value()) yield();
ParserCallPeek ==
    /\ Alive
    /\ ps.ctl \in PeekStates
    /\ cc.pc = "idle"
    /\ cc' = CallPeek
    /\ UNCHANGED pipeVars
    /\ UNCHANGED <<m_capacity, m_buffer, m_head, m_tail, pp, accepted, observed, npush>>
    /\ PipeFrame

ParserPeekReturn ==
    /\ Alive
    /\ cc.pc = "peek_ret"
    /\ cc' = [cc EXCEPT !.pc = "idle"]
    /\ ps' = IF cc.has THEN OnPeek("pipe", ps, cc.val) ELSE ps
    /\ UNCHANGED <<input, tk, syncOut, prod, par, joined>>
    /\ UNCHANGED <<m_capacity, m_buffer, m_head, m_tail, pp, accepted, observed, npush>>
    /\ PipeFrame

\* Parser::consume(): while (!m_buffer.pop()) yield();
ParserCallPop ==
    /\ Alive
    /\ ps.ctl \in ConsumeStates
    /\ cc.pc = "idle"
    /\ cc' = CallPop
    /\ UNCHANGED pipeVars
    /\ UNCHANGED <<m_capacity, m_buffer, m_head, m_tail, pp, accepted, observed, npush>>
    /\ PipeFrame

ParserPopReturn ==
    /\ Alive
    /\ cc.pc = "pop_ret"
    /\ cc' = [cc EXCEPT !.pc = "idle"]
    /\ ps' = IF cc.ret THEN OnConsumed(ps) ELSE ps
    /\ UNCHANGED <<input, tk, syncOut, prod, par, joined>>
    /\ UNCHANGED <<m_capacity, m_buffer, m_head, m_tail, pp, accepted, observed, npush>>
    /\ PipeFrame

\* parse(): Ref root = Ref(parse_value()); producer_thread.join(); return root;
\* join() returns when the thread's function has returned.
ParseJoin ==
    /\ Alive
    /\ ps.ctl = "done"
    /\ prod.pc = "done"
    /\ joined' = TRUE
    /\ par' = "returned"
    /\ UNCHANGED <<input, tk, ps, syncOut, prod>>
    /\ UNCHANGED ringVars
    /\ PipeFrame

\* parse(): parse_value() throws.  The exception leaves parse() past
\* producer_thread.join(); the destructor of the joinable std::thread
\* calls std::terminate.
ParseThrow ==
    /\ Alive
    /\ ps.ctl = "error"
    /\ par' = "terminated"
    /\ UNCHANGED <<input, tk, ps, syncOut, prod, joined>>
    /\ UNCHANGED ringVars
    /\ PipeFrame

\* How the pipeline's parse ended, as its caller sees it.
PipeEnded == par \in {"ctor_threw", "returned", "terminated"}
PipeOutcome ==
    CASE par = "returned" -> Outcome(ps, tk)
      [] par = "ctor_threw" -> Outcome(Throw(NewParser, tk.err), tk)
      [] OTHER -> [NoOutcome EXCEPT !.status = par, !.lex = tk.err]

InitPipe ==
    /\ input \in Inputs
    /\ tk = NewTokenizer(input)
    /\ ps = SyncParser(tk)
    /\ syncOut = NoOutcome
    /\ prod = [pc |-> "unstarted", token |-> DefaultToken]
    /\ par = "idle"
    /\ joined = FALSE
    /\ m_capacity \in 2..MaxCapacity
    /\ m_buffer = NewBuffer(m_capacity, DefaultToken)
    /\ m_head = 0
    /\ m_tail = 0
    /\ pp = [ProducerIdle EXCEPT !.item = DefaultToken]
    /\ cc = [ConsumerIdle EXCEPT !.val = DefaultToken]
    /\ accepted = <<>>
    /\ observed = <<>>
    /\ npush = 0
    /\ ChanUnused
    /\ DocUnused
    /\ TokUnused
    /\ UtilUnused

NextPipe ==
    \/ SyncPeek
    \/ SyncConsume
    \/ SyncReturn
    \/ PipeStart
    \/ ProducerPeek
    \/ Alive /\ PushLoadTail
    \/ Alive /\ PushCheckFull
    \/ Alive /\ PushWriteBegin
    \/ Alive /\ PushWriteEnd
    \/ Alive /\ PushStoreTail
    \/ ProducerPushReturn
    \/ ProducerConsume
    \/ ParserCallPeek
    \/ Alive /\ PeekLoadHead
    \/ Alive /\ PeekCheckEmpty
    \/ Alive /\ PeekRead
    \/ ParserPeekReturn
    \/ ParserCallPop
    \/ Alive /\ PopLoadHead
    \/ Alive /\ PopCheckEmpty
    \/ Alive /\ PopStoreHead
    \/ ParserPopReturn
    \/ ParseJoin
    \/ ParseThrow

SpecPipe == InitPipe /\ [][NextPipe]_vars

\* The steps of the producer thread, and those of the thread that called
\* parse().
ProducerStep ==
    \/ ProducerPeek
    \/ Alive /\ (PushLoadTail \/ PushCheckFull \/ PushWriteBegin \/ PushWriteEnd
                    \/ PushStoreTail)
    \/ ProducerPushReturn
    \/ ProducerConsume

CallerStep ==
    \/ SyncPeek
    \/ SyncConsume
    \/ SyncReturn
    \/ PipeStart
    \/ ParserCallPeek
    \/ Alive /\ (PeekLoadHead \/ PeekCheckEmpty \/ PeekRead)
    \/ ParserPeekReturn
    \/ ParserCallPop
    \/ Alive /\ (PopLoadHead \/ PopCheckEmpty \/ PopStoreHead)
    \/ ParserPopReturn
    \/ ParseJoin
    \/ ParseThrow

\* Both threads keep running: std::this_thread::yield() hands the processor
\* over, and the scheduler gives it back.
FairSpecPipe == SpecPipe /\ WF_vars(ProducerStep) /\ WF_vars(CallerStep)

\* ------------------------------------------------------------------------
\* The document model on the free store: Value, Array, Object
\* ------------------------------------------------------------------------
\* An Element* is a node id, nullptr is 0.  A node that was deleted keeps its
\* id, so a pointer to it that some holder kept can still be told apart.
NodeIds == 1..MaxNodes
Slots == 1..MaxSlots
KeyTexts == {"a", "b"}

\* A node that was never allocated.  view is the std::string a Value built
\* from a string_view looks into (0: the Value owns its data); an entry of
\* m_obj is [hash, s, v]: the characters its key was hashed with on insertion,
\* the std::string its string_view key looks into, the child.
FreeNode ==
    [kind |-> "Free", live |-> FALSE, released |-> 0, view |-> 0,
     m_arr |-> <<>>, m_obj |-> {}]

FreeIds(h) == {n \in NodeIds : h[n].kind = "Free"}

\* operator new: the pools hand out a node no pointer refers to.
Fresh(h) == CHOOSE n \in FreeIds(h) : \A m \in FreeIds(h) : n <= m

NewElement(kind, view) ==
    [FreeNode EXCEPT !.kind = kind, !.live = TRUE, !.view = view]

RECURSIVE SeqOf(_)
SeqOf(S) ==
    IF S = {} THEN <<>>
    ELSE LET x == CHOOSE y \in S : TRUE IN <<x>> \o SeqOf(S \ {x})

SeqRange(s) == {s[i] : i \in DOMAIN s}

\* The pointers a container holds, in the order clear() visits them.
ChildSeq(node) ==
    IF node.kind = "Object" THEN [i \in DOMAIN SeqOf(node.m_obj) |-> SeqOf(node.m_obj)[i].v]
    ELSE node.m_arr

Children(h, n) == SeqRange(ChildSeq(h[n])) \ {0}

\* The containers that hold a pointer to n.
Holders(h, n) == {m \in NodeIds : h[m].live /\ n \in Children(h, m)}

\* How many pointers to n the container m holds.
Holds(h, m, n) ==
    Cardinality({i \in DOMAIN h[m].m_arr : h[m].m_arr[i] = n})
        + Cardinality({e \in h[m].m_obj : e.v = n})

RECURSIVE ReachableFrom(_, _, _)
ReachableFrom(h, frontier, seen) ==
    LET next == (UNION {Children(h, n) : n \in frontier}) \ seen
    IN  IF next = {} THEN seen ELSE ReachableFrom(h, next, seen \cup next)

\* The nodes of the tree whose root is n.
Tree(h, n) == ReachableFrom(h, {n}, {n})

\* The nodes below n.
Descendants(h, n) == ReachableFrom(h, Children(h, n), Children(h, n))

\* delete p: ~Array() and ~Object() call clear(), which runs
\* "it->clear(), delete it" on every child, and operator delete returns the
\* node to its pool.  Releasing a node that was released before is recorded
\* as released = 2.
RECURSIVE Delete(_, _)
RECURSIVE DeleteEach(_, _)
Delete(h, n) ==
    IF n = 0 THEN h
    ELSE IF ~h[n].live THEN [h EXCEPT ![n].released = 2]
    ELSE LET h1 == [h EXCEPT ![n].live = FALSE]
             h2 == DeleteEach(h1, ChildSeq(h1[n]))
         IN  [h2 EXCEPT ![n].released = IF @ = 2 THEN 2 ELSE 1,
                        ![n].m_arr = <<>>,
                        ![n].m_obj = {}]
DeleteEach(h, cs) ==
    IF cs = <<>> THEN h ELSE DeleteEach(Delete(h, Head(cs)), Tail(cs))

\* Array::clear / Object::clear on the node n.
Clear(h, n) ==
    LET h1 == DeleteEach(h, ChildSeq(h[n]))
    IN  [h1 EXCEPT ![n].m_arr = <<>>, ![n].m_obj = {}]

\* What the run has become once a node was released twice.
Settle(h) ==
    IF \E n \in NodeIds : h[n].released = 2 THEN "released twice" ELSE "none"

\* m_obj.end(): no entry.
NoEntry == [hash |-> "", s |-> 0, v |-> 0]

\* m_obj.find(p_key): the entries whose cached hash and whose characters, read
\* through the key's string_view now, equal those of p_key.
Find(h, o, text) == {e \in h[o].m_obj : e.s # 0 /\ e.hash = text /\ strs[e.s] = text}

\* The entries that were inserted under the characters text.
InsertedUnder(h, o, text) == {e \in h[o].m_obj : e.hash = text}

\* Object::insert_raw_ptr(p_key, child) where find returned the entry e, or
\* found nothing (e = NoEntry): "if (it != m_obj.end()) delete it->second;
\* m_obj[p_key] = child;".  The key of an entry that was found stays as it is.
ObjectInsertRawPtr(h, o, s, text, e, child) ==
    IF e = NoEntry
    THEN [h EXCEPT ![o].m_obj = @ \cup {[hash |-> text, s |-> s, v |-> child]}]
    ELSE LET h1 == Delete(h, e.v)
         IN  [h1 EXCEPT ![o].m_obj = (@ \ {e}) \cup {[e EXCEPT !.v = child]}]

\* The size of the unfolded tree below n, MaxNodes + 1 once it is deeper
\* than the store is large (new Array(this) never returns on a cycle).
RECURSIVE TreeSize(_, _, _)
RECURSIVE TreeSizeEach(_, _, _)
TreeSize(h, n, fuel) ==
    IF fuel = 0 THEN MaxNodes + 1
    ELSE LET t == 1 + TreeSizeEach(h, ChildSeq(h[n]), fuel - 1)
         IN  IF t > MaxNodes THEN MaxNodes + 1 ELSE t
TreeSizeEach(h, cs, fuel) ==
    IF cs = <<>> THEN 0
    ELSE TreeSize(h, Head(cs), fuel) + TreeSizeEach(h, Tail(cs), fuel)

\* Element::copy(): Value::copy is new Value(this), which copies the variant
\* and so the string_view; Array::copy is new Array(this), which appends a
\* copy of every child; Object::copy is new Object(this), which inserts a
\* copy of every child under the child's own string_view key.
RECURSIVE Copy(_, _)
RECURSIVE CopyAndAppendAll(_, _, _)
RECURSIVE CopyAndInsertAll(_, _, _)
Copy(h, n) ==
    LET id == Fresh(h)
        h0 == [h EXCEPT ![id] = NewElement(h[n].kind, h[n].view)]
    IN  [id |-> id,
         h |-> IF h[n].kind = "Array" THEN CopyAndAppendAll(h0, id, h[n].m_arr)
               ELSE IF h[n].kind = "Object" THEN CopyAndInsertAll(h0, id, SeqOf(h[n].m_obj))
               ELSE h0]
CopyAndAppendAll(h, id, cs) ==
    IF cs = <<>> THEN h
    ELSE LET r == Copy(h, Head(cs))
         IN  CopyAndAppendAll([r.h EXCEPT ![id].m_arr = Append(@, r.id)], id, Tail(cs))
CopyAndInsertAll(h, id, es) ==
    IF es = <<>> THEN h
    ELSE LET r == Copy(h, Head(es).v)
             found == Find(r.h, id, strs[Head(es).s])
             e == IF found = {} THEN NoEntry ELSE CHOOSE x \in found : TRUE
         IN  CopyAndInsertAll(ObjectInsertRawPtr(r.h, id, Head(es).s, strs[Head(es).s], e, r.id), id, Tail(es))

\* m_obj.find(p_key) reads the characters of every key it compares; for a
\* key whose std::string was destroyed (s = 0) the comparison is undefined
\* and may come out either way.
MayFind(h, o, text) == {e \in h[o].m_obj : e.s = 0 /\ e.hash = text}

\* What m_obj.find(p_key) may return: an entry, or m_obj.end().
FindOutcomes(h, o, text) ==
    Find(h, o, text) \cup MayFind(h, o, text)
        \cup (IF Find(h, o, text) = {} THEN {NoEntry} ELSE {})

RefIds == 1..MaxRefs

NoRef == [live |-> FALSE, m_ptr |-> 0]

\* The nodes some live Ref points to.
RefTargets == {refs[r].m_ptr : r \in {q \in RefIds : refs[q].live}} \ {0}

\* The pointers the program may use: those it owns, those its Refs hold and
\* those it can reach from them with at() and get().
Reachable == ReachableFrom(heap, roots \cup RefTargets, roots \cup RefTargets)

Usable == {n \in Reachable : heap[n].live}

Containers(kind) == {n \in Usable : heap[n].kind = kind}

\* Whether copy() of n reads only nodes and key characters that are alive.
Sound(h, n) ==
    \A m \in Tree(h, n) : h[m].live /\ \A e \in h[m].m_obj : e.s # 0

\* A node the program owns and may hand over to the container a.
Detached(a) == {c \in roots : heap[c].live /\ a \notin Tree(heap, c)}

NoOp == [op |-> "none", n |-> 0, c |-> 0, olds |-> {}, size |-> 0, key |-> ""]

Did(op, n, c, olds, size) ==
    [op |-> op, n |-> n, c |-> c, olds |-> olds, size |-> size, key |-> ""]

Size(h, n) == IF h[n].kind = "Object" THEN Cardinality(h[n].m_obj) ELSE Len(h[n].m_arr)

DocRunning == ub = "none"

DocFrame == UNCHANGED <<ringVars, chanVars, pipeVars, tokVars, tripVars, utilVars>>

\* new Value(...): view = 0 for a Value that owns its data, view = s for one
\* built from a string_view of the std::string s.
DocNewValue(view) ==
    /\ DocRunning
    /\ FreeIds(heap) # {}
    /\ LET id == Fresh(heap)
       IN  /\ heap' = [heap EXCEPT ![id] = NewElement("Value", view)]
           /\ roots' = roots \cup {id}
           /\ last' = Did("new", 0, 0, {}, 0)
    /\ UNCHANGED <<strs, refs, ub>>
    /\ DocFrame

\* new Array() and new Object().
DocNewContainer(kind) ==
    /\ DocRunning
    /\ FreeIds(heap) # {}
    /\ LET id == Fresh(heap)
       IN  /\ heap' = [heap EXCEPT ![id] = NewElement(kind, 0)]
           /\ roots' = roots \cup {id}
           /\ last' = Did("new", 0, 0, {}, 0)
    /\ UNCHANGED <<strs, refs, ub>>
    /\ DocFrame

\* a->append_raw_ptr(c): m_arr.push_back(child); the array takes c over.
ArrayAppendRawPtr(a, c) ==
    /\ DocRunning
    /\ a \in Containers("Array")
    /\ c \in Detached(a)
    /\ heap' = [heap EXCEPT ![a].m_arr = Append(@, c)]
    /\ roots' = roots \ {c}
    /\ last' = Did("append", 0, 0, {}, 0)
    /\ UNCHANGED <<strs, refs, ub>>
    /\ DocFrame

\* a->set_raw_ptr(idx, c): resize(idx) when size() <= idx, and m_arr[idx] is
\* then one past the end; otherwise the old element is deleted and replaced.
ArraySetRawPtr(a, idx, c) ==
    /\ DocRunning
    /\ a \in Containers("Array")
    /\ c \in Detached(a)
    /\ idx \in 1..(Len(heap[a].m_arr) + 1)
    /\ IF Len(heap[a].m_arr) < idx
       THEN /\ ub' = "out of bounds"
            /\ UNCHANGED <<heap, roots>>
       ELSE /\ heap' = [Delete(heap, heap[a].m_arr[idx]) EXCEPT ![a].m_arr[idx] = c]
            /\ roots' = roots \ {c}
            /\ ub' = Settle(heap')
    /\ last' = Did("set", 0, 0, {}, 0)
    /\ UNCHANGED <<strs, refs>>
    /\ DocFrame

\* erase() and remove() delete nothing: the element taken out of the array
\* is the program's to delete, unless a container still holds it.
Handed(h, c) == IF h[c].live /\ Holders(h, c) = {} THEN {c} ELSE {}

\* a->erase(idx): m_arr.erase(m_arr.begin() + idx); nothing is deleted.
ArrayErase(a, idx) ==
    /\ DocRunning
    /\ a \in Containers("Array")
    /\ idx \in DOMAIN heap[a].m_arr
    /\ heap' = [heap EXCEPT ![a].m_arr =
                   [i \in 1..(Len(@) - 1) |-> IF i < idx THEN @[i] ELSE @[i + 1]]]
    /\ roots' = roots \cup Handed(heap', heap[a].m_arr[idx])
    /\ last' = Did("erase", 0, 0, {}, 0)
    /\ UNCHANGED <<strs, refs, ub>>
    /\ DocFrame

\* a->remove(child): std::find, then erase of the first occurrence.
ArrayRemove(a, child) ==
    /\ DocRunning
    /\ a \in Containers("Array")
    /\ child \in SeqRange(heap[a].m_arr)
    /\ LET idx == CHOOSE i \in DOMAIN heap[a].m_arr :
                      /\ heap[a].m_arr[i] = child
                      /\ \A j \in 1..(i - 1) : heap[a].m_arr[j] # child
       IN  heap' = [heap EXCEPT ![a].m_arr =
                       [i \in 1..(Len(@) - 1) |-> IF i < idx THEN @[i] ELSE @[i + 1]]]
    /\ roots' = roots \cup Handed(heap', child)
    /\ last' = Did("remove", 0, 0, {}, 0)
    /\ UNCHANGED <<strs, refs, ub>>
    /\ DocFrame

\* *a = *b: "if (this != &other) this->m_arr = other.m_arr;".
ArrayAssign(a, b) ==
    /\ DocRunning
    /\ a \in Containers("Array")
    /\ b \in Containers("Array")
    /\ heap' = [heap EXCEPT ![a].m_arr = IF a # b THEN heap[b].m_arr ELSE @]
    /\ last' = Did("assign", 0, 0, {}, 0)
    /\ UNCHANGED <<roots, strs, refs, ub>>
    /\ DocFrame

\* o->insert_raw_ptr(key, c), reached through o->insert(key, ...): key is
\* the program's std::string s, or for s = 0 a temporary std::string holding
\* text that is destroyed when the call returns.
ObjectInsert(o, s, text, c) ==
    /\ DocRunning
    /\ o \in Containers("Object")
    /\ s \in Slots \cup {0}
    /\ text \in KeyTexts
    /\ s # 0 => text = strs[s]
    /\ c \in Detached(o)
    /\ \E e \in FindOutcomes(heap, o, text) :
           heap' = ObjectInsertRawPtr(heap, o, s, text, e, c)
    /\ roots' = roots \ {c}
    /\ ub' = Settle(heap')
    /\ last' = [Did("insert", o, c, {e.v : e \in InsertedUnder(heap, o, text)},
                     Size(heap, o)) EXCEPT !.key = text]
    /\ UNCHANGED <<strs, refs>>
    /\ DocFrame

\* n->copy(); a tree that holds a released node or a dead key is read after
\* its release.
ElementCopy(n) ==
    /\ DocRunning
    /\ n \in Usable
    /\ IF ~Sound(heap, n)
       THEN /\ ub' = "use after release"
            /\ last' = Did("copy", n, 0, {}, 0)
            /\ UNCHANGED <<heap, roots>>
       ELSE /\ TreeSize(heap, n, MaxNodes) <= Cardinality(FreeIds(heap))
            /\ LET r == Copy(heap, n)
               IN  /\ heap' = r.h
                   /\ roots' = roots \cup {r.id}
                   /\ last' = Did("copy", n, r.id, {}, 0)
            /\ ub' = Settle(heap')
    /\ UNCHANGED <<strs, refs>>
    /\ DocFrame

\* delete r for a pointer the program owns.
ElementDelete(r) ==
    /\ DocRunning
    /\ r \in roots
    /\ heap[r].live
    /\ heap' = Delete(heap, r)
    /\ roots' = roots \ {r}
    /\ ub' = Settle(heap')
    /\ last' = Did("delete", 0, 0, Descendants(heap, r), 0)
    /\ UNCHANGED <<strs, refs>>
    /\ DocFrame

\* n->clear() on an Array or an Object.
ElementClear(n) ==
    /\ DocRunning
    /\ n \in Usable
    /\ heap[n].kind # "Value"
    /\ heap' = Clear(heap, n)
    /\ ub' = Settle(heap')
    /\ last' = Did("clear", 0, 0, Descendants(heap, n), 0)
    /\ UNCHANGED <<roots, strs, refs>>
    /\ DocFrame

\* The program assigns other characters to its std::string s.
StringAssign(s, text) ==
    /\ DocRunning
    /\ s \in Slots
    /\ text \in KeyTexts
    /\ strs[s] # text
    /\ strs' = [strs EXCEPT ![s] = text]
    /\ last' = Did("string", 0, 0, {}, 0)
    /\ UNCHANGED <<heap, roots, refs, ub>>
    /\ DocFrame

\* ------------------------------------------------------------------------
\* Ref and the factories make_value, make_array, make_object
\* ------------------------------------------------------------------------
\* Ref r(p): the Ref takes over a pointer the program owned.
RefCtor(r, n) ==
    /\ DocRunning
    /\ ~refs[r].live
    /\ n \in roots
    /\ heap[n].live
    /\ refs' = [refs EXCEPT ![r] = [live |-> TRUE, m_ptr |-> n]]
    /\ roots' = roots \ {n}
    /\ last' = Did("ref", 0, 0, {}, 0)
    /\ UNCHANGED <<heap, strs, ub>>
    /\ DocFrame

\* What obj->get(p_key) and arr->at(index) can return for the container m.
Lookup(h, m) ==
    IF h[m].kind = "Object"
    THEN {e.v : e \in UNION {Find(h, m, t) \cup MayFind(h, m, t) : t \in KeyTexts}}
    ELSE SeqRange(h[m].m_arr) \ {0}

\* Ref q = r[key] and Ref q = r[index]: "return Ref(obj->get(p_key));" and
\* "return Ref(arr->at(index));".
RefIndex(r, q, c) ==
    /\ DocRunning
    /\ refs[r].live
    /\ ~refs[q].live
    /\ refs[r].m_ptr # 0
    /\ heap[refs[r].m_ptr].live
    /\ c \in Lookup(heap, refs[r].m_ptr)
    /\ refs' = [refs EXCEPT ![q] = [live |-> TRUE, m_ptr |-> c]]
    /\ last' = Did("index", 0, 0, {}, 0)
    /\ UNCHANGED <<heap, roots, strs, ub>>
    /\ DocFrame

\* ~Ref(): "if (m_ptr != nullptr) delete m_ptr;".  olds keeps the containers
\* that held the node when the Ref deleted it.
RefDtor(r) ==
    /\ DocRunning
    /\ refs[r].live
    /\ heap' = Delete(heap, refs[r].m_ptr)
    /\ refs' = [refs EXCEPT ![r] = NoRef]
    /\ ub' = Settle(heap')
    /\ last' = Did("ref_dtor", 0, 0,
                   IF refs[r].m_ptr = 0 THEN {} ELSE Holders(heap, refs[r].m_ptr), 0)
    /\ UNCHANGED <<roots, strs>>
    /\ DocFrame

\* delete r.get(), as the program does with the Ref parse() gave it.
RefDeleteGet(r) ==
    /\ DocRunning
    /\ refs[r].live
    /\ refs[r].m_ptr # 0
    /\ heap[refs[r].m_ptr].live
    /\ heap' = Delete(heap, refs[r].m_ptr)
    /\ ub' = Settle(heap')
    /\ last' = Did("delete_get", 0, 0, {}, 0)
    /\ UNCHANGED <<roots, strs, refs>>
    /\ DocFrame

\* Ref q(r): a Value and an Object are copied; an Array is asked is_object()
\* a second time and m_ptr stays nullptr.
RefCopy(r, q) ==
    /\ DocRunning
    /\ refs[r].live
    /\ ~refs[q].live
    /\ refs[r].m_ptr # 0
    /\ LET n == refs[r].m_ptr
       IN  IF ~Sound(heap, n)
           THEN /\ ub' = "use after release"
                /\ last' = Did("ref_copy", 0, 0, {}, 0)
                /\ UNCHANGED <<heap, refs>>
           ELSE IF heap[n].kind = "Array"
           THEN /\ refs' = [refs EXCEPT ![q] = [live |-> TRUE, m_ptr |-> 0]]
                /\ last' = Did("ref_copy", 0, 0, {}, 0)
                /\ UNCHANGED <<heap, ub>>
           ELSE /\ TreeSize(heap, n, MaxNodes) <= Cardinality(FreeIds(heap))
                /\ LET c == Copy(heap, n)
                   IN  /\ heap' = c.h
                       /\ refs' = [refs EXCEPT ![q] = [live |-> TRUE, m_ptr |-> c.id]]
                       /\ last' = Did("ref_copy", 0, 0, {}, 0)
                /\ ub' = Settle(heap')
    /\ UNCHANGED <<roots, strs>>
    /\ DocFrame

\* q = std::move(r): "m_ptr = other.m_ptr; other.m_ptr = nullptr;" with no
\* delete of what q held.
RefMoveAssign(q, r) ==
    /\ DocRunning
    /\ refs[r].live
    /\ refs[q].live
    /\ q # r
    /\ refs' = [refs EXCEPT ![q].m_ptr = refs[r].m_ptr, ![r].m_ptr = 0]
    /\ last' = Did("ref_move", 0, 0, {}, 0)
    /\ UNCHANGED <<heap, roots, strs, ub>>
    /\ DocFrame

\* Ref r = make_value(...): "return Ref(new Value(p_val));".
MakeValue(r) ==
    /\ DocRunning
    /\ ~refs[r].live
    /\ FreeIds(heap) # {}
    /\ LET id == Fresh(heap)
       IN  /\ heap' = [heap EXCEPT ![id] = NewElement("Value", 0)]
           /\ refs' = [refs EXCEPT ![r] = [live |-> TRUE, m_ptr |-> id]]
           /\ last' = Did("make_value", 0, 0, {}, 0)
    /\ UNCHANGED <<roots, strs, ub>>
    /\ DocFrame

\* Ref q = make_array({make_value(...)}); the whole statement: the list
\* holds the Ref of make_value, make_array appends v.get() to a new Array,
\* and the list with its Ref is destroyed at the end of the statement.
MakeArray(q) ==
    /\ DocRunning
    /\ ~refs[q].live
    /\ Cardinality(FreeIds(heap)) >= 2
    /\ LET v == Fresh(heap)
           h1 == [heap EXCEPT ![v] = NewElement("Value", 0)]
           arr == Fresh(h1)
           h2 == [h1 EXCEPT ![arr] = [NewElement("Array", 0) EXCEPT !.m_arr = <<v>>]]
       IN  /\ heap' = Delete(h2, v)
           /\ refs' = [refs EXCEPT ![q] = [live |-> TRUE, m_ptr |-> arr]]
           /\ last' = Did("make_array", 0, 0, {}, 0)
    /\ ub' = Settle(heap')
    /\ UNCHANGED <<roots, strs>>
    /\ DocFrame

\* Ref q = make_object({{text, make_value(...)}}); the whole statement: the
\* pair of the list holds the key as a std::string and the Ref, make_object
\* inserts kv.second.get() under a string_view of kv.first, and the list is
\* destroyed at the end of the statement.
MakeObject(q, text) ==
    /\ DocRunning
    /\ ~refs[q].live
    /\ text \in KeyTexts
    /\ Cardinality(FreeIds(heap)) >= 2
    /\ LET v == Fresh(heap)
           h1 == [heap EXCEPT ![v] = NewElement("Value", 0)]
           obj == Fresh(h1)
           h2 == [h1 EXCEPT ![obj] = NewElement("Object", 0)]
           h3 == ObjectInsertRawPtr(h2, obj, 0, text, NoEntry, v)
       IN  /\ heap' = Delete(h3, v)
           /\ refs' = [refs EXCEPT ![q] = [live |-> TRUE, m_ptr |-> obj]]
           /\ last' = Did("make_object", 0, 0, {}, 0)
    /\ ub' = Settle(heap')
    /\ UNCHANGED <<roots, strs>>
    /\ DocFrame

InitDoc ==
    /\ heap = [n \in NodeIds |-> FreeNode]
    /\ roots = {}
    /\ strs = [s \in Slots |-> "a"]
    /\ refs = [r \in RefIds |-> NoRef]
    /\ ub = "none"
    /\ last = NoOp
    /\ RingUnused
    /\ ChanUnused
    /\ PipeUnused
    /\ TokUnused
    /\ UtilUnused

NextDoc ==
    \/ \E view \in {0} \cup Slots : DocNewValue(view)
    \/ \E kind \in {"Array", "Object"} : DocNewContainer(kind)
    \/ \E a, c \in NodeIds : ArrayAppendRawPtr(a, c)
    \/ \E a, c \in NodeIds : \E idx \in 1..(MaxNodes + 1) : ArraySetRawPtr(a, idx, c)
    \/ \E a \in NodeIds : \E idx \in 1..MaxNodes : ArrayErase(a, idx)
    \/ \E a, child \in NodeIds : ArrayRemove(a, child)
    \/ \E a, b \in NodeIds : ArrayAssign(a, b)
    \/ \E o, c \in NodeIds : \E s \in {0} \cup Slots : \E text \in KeyTexts :
           ObjectInsert(o, s, text, c)
    \/ \E n \in NodeIds : ElementCopy(n)
    \/ \E r \in NodeIds : ElementDelete(r)
    \/ \E n \in NodeIds : ElementClear(n)
    \/ \E s \in Slots : \E text \in KeyTexts : StringAssign(s, text)

\* Programs that use the document classes directly.
SpecDoc == InitDoc /\ [][NextDoc]_vars

NextRef ==
    \/ DocNewValue(0)
    \/ \E kind \in {"Array", "Object"} : DocNewContainer(kind)
    \/ \E a, c \in NodeIds : ArrayAppendRawPtr(a, c)
    \/ \E o, c \in NodeIds : \E text \in KeyTexts : ObjectInsert(o, 0, text, c)
    \/ \E r \in RefIds : \E n \in NodeIds : RefCtor(r, n)
    \/ \E r, q \in RefIds : \E c \in NodeIds : RefIndex(r, q, c)
    \/ \E r \in RefIds : RefDtor(r)
    \/ \E r \in RefIds : RefDeleteGet(r)
    \/ \E r, q \in RefIds : RefCopy(r, q)
    \/ \E q, r \in RefIds : RefMoveAssign(q, r)
    \/ \E r \in RefIds : MakeValue(r)
    \/ \E q \in RefIds : MakeArray(q)
    \/ \E q \in RefIds : \E text \in KeyTexts : MakeObject(q, text)

\* Programs that build documents and walk them through Ref.
SpecRef == InitDoc /\ [][NextRef]_vars

\* ------------------------------------------------------------------------
\* A Tokenizer driven on its own, and the Tokenizer of the earlier variant
\* ------------------------------------------------------------------------
\* The characters of the texts: a quote, a backslash, a letter (the one of
\* an exponent), a digit, a line feed, a brace, a minus sign, a point.
TokAlphabet == {"\"", "\\", "e", "1", "\n", "{", "-", "."}

RECURSIVE TextsOfLen(_)
TextsOfLen(n) ==
    IF n = 0 THEN {<<>>}
    ELSE {Append(w, ch) : w \in TextsOfLen(n - 1), ch \in TokAlphabet}

TokTexts == UNION {TextsOfLen(n) : n \in 0..MaxLen}

\* The terminator of a std::string, and what the bytes behind it may hold.
NUL == "NUL"

Beyond == {NUL, "\"", "1"}

NoCall == [op |-> "none", ret |-> DefaultToken, first |-> DefaultToken, run |-> 0,
           pre |-> [m_pos |-> 0, line |-> 1, column |-> 1,
                    m_current_token |-> DefaultToken, err |-> NoError]]

TokFrame == UNCHANGED <<ringVars, chanVars, docVars, tripVars, utilVars>>

TokPipeFrame == UNCHANGED <<ps, syncOut, prod, par, joined>>

\* t.peek(): "return m_current_token;" in a const member function.
TokPeek ==
    /\ tk.err = NoError
    /\ otk.pc = "unstarted"
    /\ call.run < MaxPeeks
    /\ call' = [op |-> "peek",
                ret |-> TokenizerPeek(tk),
                first |-> IF call.op = "peek" THEN call.first ELSE TokenizerPeek(tk),
                run |-> call.run + 1,
                pre |-> tk]
    /\ UNCHANGED <<input, tk, otk>>
    /\ TokPipeFrame
    /\ TokFrame

\* t.consume(): "m_current_token = read_next_token();".
TokConsume ==
    /\ tk.err = NoError
    /\ otk.pc = "unstarted"
    /\ tk' = TokenizerConsume(input, tk)
    /\ call' = [NoCall EXCEPT !.op = "consume", !.pre = tk]
    /\ UNCHANGED <<input, otk>>
    /\ TokPipeFrame
    /\ TokFrame

\* InputStream of the earlier variant: str[i] for the index i, counted from
\* 0.  str[size()] is the terminator; an index behind it reads the bytes mem
\* that follow the string in memory.
OldCharAt(str, mem, i) ==
    IF i < Len(str) THEN str[i + 1]
    ELSE IF i = Len(str) THEN NUL
    ELSE IF i - Len(str) <= Len(mem) THEN mem[i - Len(str)]
    ELSE NUL

\* char get() { return str[current++]; }
OldGet(str, t) ==
    [t EXCEPT !.current = @ + 1, !.over = @ \/ t.current > Len(str)]

\* char peek() { return str[current]; }
OldPeek(str, t) == OldCharAt(str, t.mem, t.current)

\* char forward() { return str[current + 1]; }
OldForward(str, t) == OldCharAt(str, t.mem, t.current + 1)

\* bool eof() const noexcept { return current >= end; }
OldEof(str, t) == t.current >= Len(str)

\* stream.get(current_ch), and current_ch = stream.get()
OldGetCh(str, t) == [OldGet(str, t) EXCEPT !.current_ch = OldPeek(str, t)]

OldScanned(t, type, value) == [t EXCEPT !.m_current_token = Token(type, value)]

OldThrown(t) == [t EXCEPT !.err = ParseException(t.line, t.column)]

RECURSIVE OldSkipWhiteSpace(_, _)
OldSkipWhiteSpace(str, t) ==
    IF ~OldEof(str, t) /\ OldPeek(str, t) \in {"\n", "\t", " "}
    THEN LET t1 == [OldGetCh(str, t) EXCEPT !.column = @ + 1]
         IN  OldSkipWhiteSpace(str, IF t1.current_ch = "\n"
                                    THEN [t1 EXCEPT !.line = @ + 1, !.column = 1]
                                    ELSE t1)
    ELSE t

\* The loop of parse_number: it tests forward(), the character after the
\* next one, and reads the next one.
RECURSIVE OldNumberLoop(_, _, _, _)
OldNumberLoop(str, t, _str, is_float) ==
    IF OldForward(str, t) \in Digits \cup {".", "-"}
    THEN LET t0 == [t EXCEPT !.over = @ \/ t.current + 1 > Len(str)]
             t1 == OldGetCh(str, t0)
         IN  OldNumberLoop(str, [t1 EXCEPT !.column = @ + 1],
                           Append(_str, t1.current_ch),
                           is_float \/ t1.current_ch = ".")
    ELSE LET t0 == [t EXCEPT !.over = @ \/ t.current + 1 > Len(str)
                                        \/ t.current > Len(str)]
             last_ch == OldPeek(str, t0)
         IN  IF last_ch \in Digits
             THEN OldScanned(OldGet(str, t0), IF is_float THEN "Float" ELSE "Integer",
                             Append(_str, last_ch))
             ELSE OldScanned(t0, IF is_float THEN "Float" ELSE "Integer", _str)

OldParseNumber(str, t) == OldNumberLoop(str, t, <<t.current_ch>>, FALSE)

\* expect(c) for every c of lits in turn, then the token.
RECURSIVE OldExpectAll(_, _, _, _, _)
OldExpectAll(str, t, lits, type, value) ==
    IF lits = <<>> THEN OldScanned(t, type, value)
    ELSE LET t1 == OldGetCh(str, t)
         IN  IF t1.current_ch # Head(lits) THEN OldThrown(t1)
             ELSE OldExpectAll(str, [t1 EXCEPT !.column = @ + 1], Tail(lits), type, value)

OldParseBool(str, t) ==
    IF t.current_ch = "t"
    THEN OldExpectAll(str, t, <<"r", "u", "e">>, "Bool", <<"t", "r", "u", "e">>)
    ELSE OldExpectAll(str, t, <<"a", "l", "s", "e">>, "Bool", <<"f", "a", "l", "s", "e">>)

OldParseNull(str, t) ==
    OldExpectAll(str, t, <<"u", "l", "l">>, "Null", <<"n", "u", "l", "l">>)

\* parse_string of the earlier variant: "while (stream.get(current_ch))"
\* ends on a zero byte, a quote breaks out, a backslash reads one more
\* character, and the String token is returned in every case.
RECURSIVE OldParseString(_, _, _)
OldParseString(str, t, _str) ==
    LET t1 == OldGetCh(str, t) IN
    IF t1.current_ch = NUL THEN OldScanned(t1, "String", _str)
    ELSE LET t2 == [t1 EXCEPT !.column = @ + 1] IN
         IF t2.current_ch = "\"" THEN OldScanned(t2, "String", _str)
         ELSE IF t2.current_ch = "\\"
         THEN LET t3 == OldGetCh(str, t2)
              IN  OldParseString(str, t3, Append(_str, t3.current_ch))
         ELSE OldParseString(str, t2, Append(_str, t2.current_ch))

\* Token read_next_token() of the earlier variant.
OldReadNextToken(str, t) ==
    LET t1 == OldSkipWhiteSpace(str, t) IN
    IF OldEof(str, t1) THEN OldScanned(t1, "End", <<>>)
    ELSE LET t2 == [OldGetCh(str, t1) EXCEPT !.column = @ + 1]
             ch == t2.current_ch
         IN  IF ch \in {"{", "}", "[", "]", ":", ","}
             THEN OldScanned(t2, Punctuation(ch), <<ch>>)
             ELSE IF ch = "\"" THEN OldParseString(str, t2, <<>>)
             ELSE IF ch \in {"t", "f"} THEN OldParseBool(str, t2)
             ELSE IF ch = "n" THEN OldParseNull(str, t2)
             ELSE IF ch \in Digits \/ ch = "-" THEN OldParseNumber(str, t2)
             ELSE OldThrown(t2)

OldUnstarted ==
    [pc |-> "unstarted", mem |-> <<>>, current |-> 0, line |-> 1, column |-> 1,
     current_ch |-> NUL, m_current_token |-> DefaultToken, err |-> NoError,
     over |-> FALSE, began |-> 0]

\* Tokenizer(const InputStream &stream): stream(stream), line(1), column(1)
\* { consume(); } on the same text, once the other Tokenizer is done with it;
\* mem is what follows the copy of the text in memory.
OldStart(mem) ==
    /\ otk.pc = "unstarted"
    /\ tk.err # NoError \/ tk.m_current_token.type = "End"
    /\ otk' = [OldReadNextToken(input, [OldUnstarted EXCEPT !.mem = mem])
                  EXCEPT !.pc = "started"]
    /\ UNCHANGED <<input, tk, call>>
    /\ TokPipeFrame
    /\ TokFrame

\* consume() of the earlier variant: "m_current_token = read_next_token();".
OldConsume ==
    /\ otk.pc = "started"
    /\ otk.err = NoError
    /\ otk.m_current_token.type # "End"
    /\ otk' = OldReadNextToken(input, [otk EXCEPT !.began = otk.current])
    /\ UNCHANGED <<input, tk, call>>
    /\ TokPipeFrame
    /\ TokFrame

\* Tokenizer(const std::string &p_str) on a text of TokTexts.
InitTok ==
    /\ input \in TokTexts
    /\ tk = NewTokenizer(input)
    /\ call = [NoCall EXCEPT !.op = "consume"]
    /\ otk = OldUnstarted
    /\ trip = <<>>
    /\ ps = <<>>
    /\ syncOut = <<>>
    /\ prod = <<>>
    /\ par = "unused"
    /\ joined = FALSE
    /\ RingUnused
    /\ ChanUnused
    /\ DocUnused
    /\ UtilUnused

NextTok ==
    \/ TokPeek
    \/ TokConsume
    \/ \E mem \in [1..MaxOver -> Beyond] : OldStart(mem)
    \/ OldConsume

SpecTok == InitTok /\ [][NextTok]_vars

\* ------------------------------------------------------------------------
\* serialize(), and a tree written as text and parsed again
\* ------------------------------------------------------------------------
DigitChar(d) == <<"0", "1", "2", "3", "4", "5", "6", "7", "8", "9">>[d + 1]

RECURSIVE Pow10(_)
Pow10(n) == IF n = 0 THEN 1 ELSE 10 * Pow10(n - 1)

\* The decimal digits of n >= 0, at least width of them.
RECURSIVE DigitsOf(_, _)
DigitsOf(n, width) ==
    IF n < 10 /\ width <= 1 THEN <<DigitChar(n)>>
    ELSE Append(DigitsOf(n \div 10, width - 1), DigitChar(n % 10))

\* std::to_string(int)
ToStringInt(i) == IF i < 0 THEN <<"-">> \o DigitsOf(-i, 1) ELSE DigitsOf(i, 1)

\* std::to_string(float): "%f", the sign, the integer part, and six
\* decimals, rounded to the nearest.  micro is the value in millionths; when
\* the decimal lies halfway between two of them the binary digits of the
\* float decide, and both results are kept.  (The float is as close to the
\* decimal it was read from as 6 * 10^-8 of its value: for the values below
\* 8 of the texts of the model its millionths are those of the decimal.)
ToStringFloat(f) ==
    LET a == IF f[1] < 0 THEN -f[1] ELSE f[1]
        scale == f[2]
        unit == Pow10(scale - 6)
        micro == IF scale <= 6 THEN {a * Pow10(6 - scale)}
                 ELSE IF 2 * (a % unit) < unit THEN {a \div unit}
                 ELSE IF 2 * (a % unit) > unit THEN {a \div unit + 1}
                 ELSE {a \div unit, a \div unit + 1}
        sign == IF f[1] < 0 THEN <<"-">> ELSE <<>>
    IN  {sign \o DigitsOf(m \div 1000000, 1) \o <<".">> \o DigitsOf(m % 1000000, 6) :
             m \in micro}

\* The orders in which a range-for can visit the keys of the unordered_map.
Orders(keys) ==
    {o \in [1..Cardinality(keys) -> keys] :
         \A i, j \in 1..Cardinality(keys) : i # j => o[i] # o[j]}

\* What the loops of Array::serialize and Object::serialize write for the
\* parts in turn: "if (is_first) is_first = false; else oss << ',';".
RECURSIVE Joined(_)
Joined(parts) ==
    IF parts = <<>> THEN {<<>>}
    ELSE IF Len(parts) = 1 THEN parts[1]
    ELSE {first \o <<",">> \o rest : first \in parts[1], rest \in Joined(Tail(parts))}

\* string_t serialize() of Value, Array and Object: the texts it can return
\* (one for each order of the keys of every Object).
RECURSIVE Serialize(_)
Serialize(node) ==
    CASE node.kind = "Int" -> {ToStringInt(node.i)}
      [] node.kind = "Float" -> ToStringFloat(node.f)
      [] node.kind = "String" -> {<<"\"">> \o node.s \o <<"\"">>}
      [] node.kind = "Bool" -> {IF node.b THEN <<"t", "r", "u", "e">>
                                ELSE <<"f", "a", "l", "s", "e">>}
      [] node.kind = "Null" -> {<<"n", "u", "l", "l">>}
      [] node.kind = "Array" ->
             {<<"[">> \o body \o <<"]">> :
                  body \in Joined([i \in DOMAIN node.m_arr |-> Serialize(node.m_arr[i])])}
      [] node.kind = "Object" ->
             {<<"{">> \o body \o <<"}">> :
                  body \in UNION {Joined([i \in DOMAIN o |->
                                             {<<"\"">> \o o[i] \o <<"\"", ":">> \o v :
                                                  v \in Serialize(node.m_obj[o[i]])}]) :
                                      o \in Orders(DOMAIN node.m_obj)}}

\* The documents of the round trip: every one is valid JSON without an
\* exponent.
Documents ==
    { <<"0">>,
      <<"-", "1", "2">>,
      <<"1", ".", "5">>,
      <<"-", "0", ".", "2", "5">>,
      <<"2", ".", "0">>,
      <<"0", ".", "0", "0", "0", "0", "0", "0", "1">>,
      <<"t", "r", "u", "e">>,
      <<"f", "a", "l", "s", "e">>,
      <<"n", "u", "l", "l">>,
      <<"\"", "\"">>,
      <<"\"", "a", "\\", "\"", "\"">>,
      <<"[", "]">>,
      <<" ", "[", "1", ",", "\n", "[", "]", ",", "\"", "a", "\"", "]">>,
      <<"[", "0", ".", "5", ",", "n", "u", "l", "l", "]">>,
      <<"{", "}">>,
      <<"{", "\"", "a", "\"", ":", "1", ",", "\"", "b", "\"", ":", "[", "2", "]", "}">>,
      <<"{", "\"", "a", "\"", ":", "1", ",", "\"", "a", "\"", ":", "t", "r", "u", "e", "}">>,
      <<"{", "\"", "a", "\"", ":", "{", "\"", "\"", ":", "1", ".", "5", "}", "}">> }

NoTrip == [pc |-> "first", tree |-> NullValue, text |-> <<>>]

\* Ref again = Parser(root->serialize()).parse(), after the parse of the
\* document has returned root.
Reserialize ==
    /\ trip.pc = "first"
    /\ syncOut.status = "tree"
    /\ \E text \in Serialize(syncOut.tree) :
           /\ input' = text
           /\ tk' = NewTokenizer(text)
           /\ ps' = SyncParser(tk')
           /\ trip' = [pc |-> "second", tree |-> syncOut.tree, text |-> input]
    /\ syncOut' = NoOutcome
    /\ UNCHANGED <<prod, par, joined, call, otk>>
    /\ UNCHANGED <<ringVars, chanVars, docVars, utilVars>>

InitTrip ==
    /\ input \in Documents
    /\ tk = NewTokenizer(input)
    /\ ps = SyncParser(tk)
    /\ syncOut = NoOutcome
    /\ prod = <<>>
    /\ par = "unused"
    /\ joined = FALSE
    /\ call = <<>>
    /\ otk = <<>>
    /\ trip = NoTrip
    /\ RingUnused
    /\ ChanUnused
    /\ DocUnused
    /\ UtilUnused

NextTrip ==
    \/ SyncPeek
    \/ SyncConsume
    \/ SyncReturn
    \/ Reserialize

\* parse, serialize, parse.
SpecTrip == InitTrip /\ [][NextTrip]_vars

\* ------------------------------------------------------------------------
\* operator== of Array and Object
\* ------------------------------------------------------------------------
\* The containers that are compared.  An Object is written as its entries
\* in the order in which its unordered_map iterates over them.
Entry(k, v) == [key |-> k, v |-> v]

ArraysOver(S) ==
    {[NewArray EXCEPT !.m_arr = a] : a \in UNION {[1..n -> S] : n \in 0..MaxArity}}

ObjectsOver(S) ==
    {[NewObject EXCEPT !.m_obj = es] :
         es \in {o \in UNION {[1..n -> {Entry(k, v) : k \in KeyTexts, v \in S}] :
                                  n \in 0..MaxArity} :
                     \A i, j \in DOMAIN o : i # j => o[i].key # o[j].key}}

Flat == ArraysOver({IntValue(1), IntValue(2)}) \cup ObjectsOver({IntValue(1), IntValue(2)})

Compared ==
    Flat \cup {[NewArray EXCEPT !.m_arr = <<c>>] : c \in Flat}
         \cup {[NewObject EXCEPT !.m_obj = <<Entry(k, c)>>] : k \in KeyTexts, c \in Flat}

\* std::equal(first1, last1, first2, pred) over the results of pred for
\* the pairs in turn: the first pair that is not equal decides, and a call
\* of pred that does not return keeps std::equal from returning.
FirstUnequal(rets) ==
    IF \A i \in DOMAIN rets : rets[i] = "true" THEN "true"
    ELSE rets[CHOOSE i \in DOMAIN rets :
                  rets[i] # "true" /\ \A j \in 1..(i - 1) : rets[j] = "true"]

\* "*a == *b" for two Element pointers: the virtual operator==(const
\* Element &) of *a.  In Value's, "(*this) == (*val)" has a const Value on
\* its right, which operator==(Value &) does not accept: the call is the
\* same operator==(const Element &) again, without end.  Array's and
\* Object's go on to operator==(const Array &), operator==(const Object &).
RECURSIVE ElementEquals(_, _)
ArrayEquals(x, y) ==
    IF Len(x.m_arr) # Len(y.m_arr) THEN "false"
    ELSE FirstUnequal([i \in DOMAIN x.m_arr |-> ElementEquals(x.m_arr[i], y.m_arr[i])])

\* Object::operator==: the sizes, then std::equal over the two maps in the
\* order of their iterators, with a predicate on a.second and b.second.
ObjectEquals(x, y) ==
    IF Len(x.m_obj) # Len(y.m_obj) THEN "false"
    ELSE FirstUnequal([i \in DOMAIN x.m_obj |-> ElementEquals(x.m_obj[i].v, y.m_obj[i].v)])

ElementEquals(x, y) ==
    IF x.kind \notin {"Array", "Object"}
    THEN IF y.kind \in {"Array", "Object"} THEN "false" ELSE "diverges"
    ELSE IF x.kind # y.kind THEN "false"
    ELSE IF x.kind = "Array" THEN ArrayEquals(x, y)
    ELSE ObjectEquals(x, y)

\* "*v != *other.m_map.at(k)" of the earlier variant, for two Elements that
\* are not the same node: Value compares the addresses, Array the two
\* vectors of pointers, and Object's operator==(const Element &) calls
\* itself, operator==(Object &) not accepting a const Object.
OldNotEquals(v, w) ==
    CASE v.kind = "Array" ->
             IF w.kind = "Array" /\ v.m_arr = <<>> /\ w.m_arr = <<>> THEN "false" ELSE "true"
      [] v.kind = "Object" -> IF w.kind = "Object" THEN "diverges" ELSE "true"
      [] OTHER -> "true"

\* Object::operator==(Object &) of the earlier variant: key by key.
OldObjectEquals(x, y) ==
    LET At(o, k) == o.m_obj[CHOOSE i \in DOMAIN o.m_obj : o.m_obj[i].key = k].v
        Has(o, k) == \E i \in DOMAIN o.m_obj : o.m_obj[i].key = k
        Same(e) == IF ~Has(y, e.key) THEN "false"
                   ELSE LET ne == OldNotEquals(e.v, At(y, e.key))
                        IN  IF ne = "true" THEN "false"
                            ELSE IF ne = "false" THEN "true" ELSE ne
    IN  IF Len(x.m_obj) # Len(y.m_obj) THEN "false"
        ELSE FirstUnequal([i \in DOMAIN x.m_obj |-> Same(x.m_obj[i])])

\* x == y for two containers of the program that are not the same object.
Equals ==
    /\ cmp.ret = "none"
    /\ cmp' = [cmp EXCEPT !.ret = ElementEquals(cmp.x, cmp.y)]
    /\ UNCHANGED <<ringVars, chanVars, pipeVars, docVars, tokVars, tripVars, pool, po>>

\* x == y for two Objects of the earlier variant.
OldEquals ==
    /\ cmp.old = "none"
    /\ cmp.x.kind = "Object"
    /\ cmp.y.kind = "Object"
    /\ cmp' = [cmp EXCEPT !.old = OldObjectEquals(cmp.x, cmp.y)]
    /\ UNCHANGED <<ringVars, chanVars, pipeVars, docVars, tokVars, tripVars, pool, po>>

InitEq ==
    /\ cmp \in [x : Compared, y : Compared, ret : {"none"}, old : {"none"}]
    /\ pool = <<>>
    /\ po = <<>>
    /\ trip = <<>>
    /\ call = <<>>
    /\ otk = <<>>
    /\ RingUnused
    /\ ChanUnused
    /\ PipeUnused
    /\ DocUnused

NextEq == Equals \/ OldEquals

SpecEq == InitEq /\ [][NextEq]_vars

\* ------------------------------------------------------------------------
\* parse_object on a sequence of tokens
\* ------------------------------------------------------------------------
\* The tokens a Tokenizer hands out, one per consume(): the punctuation of
\* Objects, two keys, an Integer.  The first token is '{', as parse_value
\* calls parse_object on nothing else, and End follows the last token.
ObjectBegin == Token("ObjectBegin", <<"{">>)
ObjectEnd == Token("ObjectEnd", <<"}">>)
Colon == Token("Colon", <<":">>)
Comma == Token("Comma", <<",">>)
KeyTokens == {Token("String", <<"a">>), Token("String", <<"b">>)}
ObjTokens == {ObjectBegin, ObjectEnd, Colon, Comma, Token("Integer", <<"1">>)} \cup KeyTokens

RECURSIVE TokensOfLen(_)
TokensOfLen(n) ==
    IF n = 0 THEN {<<>>}
    ELSE {Append(w, token) : w \in TokensOfLen(n - 1), token \in ObjTokens}

TokenSeqs == {<<ObjectBegin>> \o w : w \in UNION {TokensOfLen(n) : n \in 0..(MaxTokens - 1)}}

\* peek() when n tokens have been consumed.
TokenAt(toks, n) == IF n < Len(toks) THEN toks[n + 1] ELSE Token("End", <<>>)

\* How a call ended: with the tree, at tokens consumed, or with an exception
\* raised at the token number at.
NotRun == [ran |-> FALSE, ok |-> FALSE, at |-> 0, node |-> NullValue]
Parsed(n, node) == [ran |-> TRUE, ok |-> TRUE, at |-> n, node |-> node]
Raised(n) == [ran |-> TRUE, ok |-> FALSE, at |-> n, node |-> NullValue]

\* Parser::parse_value() run to its end over the tokens: every peek() and
\* consume() of parse_value, parse_object and parse_array in turn; n tokens
\* have been consumed.
RECURSIVE RunParser(_, _, _)
RunParser(p, toks, n) ==
    IF p.ctl = "done" THEN Parsed(n, p.result)
    ELSE IF p.ctl = "error" THEN Raised(n + 1)
    ELSE IF p.ctl \in PeekStates
    THEN RunParser(OnPeek("sync", p, TokenAt(toks, n)), toks, n)
    ELSE RunParser(OnConsumed(p), toks, n + 1)

\* Json::Parser of the earlier variant.  tokenizer->next() hands out the next
\* token and moves on; n tokens have been handed out by next().
\* tokenizer->forward() is next_token: the token next() will hand out, and
\* still the last token of the text when next() has handed that out.
OldForwardToken(toks, n) == IF n < Len(toks) THEN toks[n + 1] ELSE toks[Len(toks)]

RECURSIVE OldParseValue(_, _)
RECURSIVE OldParseObject(_, _, _, _)
RECURSIVE OldParseArray(_, _, _)

\* static Element* parse_value(Tokenizer* tokenizer)
OldParseValue(toks, n) ==
    LET token == TokenAt(toks, n) IN
    CASE token.type = "ObjectBegin" ->
            OldParseObject(toks, n + 2, NewObject, TokenAt(toks, n + 1))
      [] token.type = "ArrayBegin" -> OldParseArray(toks, n + 1, NewArray)
      [] token.type = "Integer" -> Parsed(n + 1, IntValue(Atoi(token.value)))
      [] token.type = "Float" ->
            IF Stof(token.value).ok THEN Parsed(n + 1, FloatValue(Stof(token.value).val))
            ELSE Raised(n + 1)
      [] token.type = "Bool" -> Parsed(n + 1, BoolValue(token.value[1] = "t"))
      [] token.type = "String" -> Parsed(n + 1, StringValue(token.value))
      [] token.type = "Null" -> Parsed(n + 1, NullValue)
      [] OTHER -> Raised(n + 1)

\* static Object* parse_object(Tokenizer* tokenizer): the loop
\*   while (tk.type != TokenType::ObjectEnd) { ... }
\* entered with key_token (tk), the token number n.
OldParseObject(toks, n, obj, key_token) ==
    IF key_token.type = "ObjectEnd" THEN Parsed(n, obj)
    ELSE IF key_token.type # "String" THEN Raised(n)
    ELSE IF TokenAt(toks, n).type # "Colon" THEN Raised(n + 1)
    ELSE LET v == OldParseValue(toks, n + 1)
             next == TokenAt(toks, v.at)
         IN  IF ~v.ok THEN v
             ELSE IF next.type = "Comma"
             THEN OldParseObject(toks, v.at + 2, InsertRawPtr(obj, key_token.value, v.node),
                                 TokenAt(toks, v.at + 1))
             ELSE OldParseObject(toks, v.at + 1, InsertRawPtr(obj, key_token.value, v.node), next)

\* static Array* parse_array(Tokenizer* tokenizer): an empty Array when
\* forward() is ']', else values for as long as next() is not ']'.
OldParseArray(toks, n, arr) ==
    IF arr.m_arr = <<>> /\ OldForwardToken(toks, n).type = "ArrayEnd" THEN Parsed(n + 1, arr)
    ELSE LET v == OldParseValue(toks, n) IN
         IF ~v.ok THEN v
         ELSE IF TokenAt(toks, v.at).type = "ArrayEnd"
         THEN Parsed(v.at + 1, AppendRawPtr(arr, v.node))
         ELSE OldParseArray(toks, v.at + 1, AppendRawPtr(arr, v.node))

\* parse_value() on tokens that begin with '{': one call of parse_object.
ParseObjectCall ==
    /\ ~po.ret.ran
    /\ po' = [po EXCEPT !.ret = RunParser(NewParser, po.toks, 0)]
    /\ UNCHANGED <<ringVars, chanVars, pipeVars, docVars, tokVars, tripVars, cmp, pool>>

\* The same call on the Parser of the earlier variant.
OldParseObjectCall ==
    /\ ~po.old.ran
    /\ po' = [po EXCEPT !.old = OldParseValue(po.toks, 0)]
    /\ UNCHANGED <<ringVars, chanVars, pipeVars, docVars, tokVars, tripVars, cmp, pool>>

InitObj ==
    /\ po \in [toks : TokenSeqs, ret : {NotRun}, old : {NotRun}]
    /\ cmp = <<>>
    /\ pool = <<>>
    /\ trip = <<>>
    /\ call = <<>>
    /\ otk = <<>>
    /\ RingUnused
    /\ ChanUnused
    /\ PipeUnused
    /\ DocUnused

NextObj == ParseObjectCall \/ OldParseObjectCall

SpecObj == InitObj /\ [][NextObj]_vars

\* ------------------------------------------------------------------------
\* The allocators of the object pool: BlockAllocator, FreeListAllocator
\* ------------------------------------------------------------------------
\* Memory is a set of addresses; 0 is nullptr.
Addresses == 1..MaxBlocks

\* ::malloc: the address of memory that is not allocated, or nullptr.
Malloc(live) == (Addresses \ live) \cup {0}

\* T *: a slot of a block; currentBlock++ moves to the next slot, and past
\* the last slot of the block it is the end of the block.
NullSlot == [block |-> 0, slot |-> 0]

\* last: the last call, the pointer it returned or was given, and the
\* allocator before it (history).
NoPoolCall == [op |-> "none", ptr |-> 0, pre |-> <<>>]

\* BlockAllocator: blocks, currentBlock, remaining.  released: the blocks
\* given to ::free; handed: the pointers allocate returned, in order.
NewBlockAllocator ==
    [kind |-> "Block", alive |-> TRUE, blocks |-> <<>>, currentBlock |-> NullSlot,
     remaining |-> 0, released |-> {}, handed |-> <<>>, calls |-> 0,
     last |-> NoPoolCall]

BlockFields(a) ==
    [blocks |-> a.blocks, currentBlock |-> a.currentBlock, remaining |-> a.remaining]

\* T *allocate(size_t n)
BlockAllocate ==
    /\ pool.kind = "Block"
    /\ pool.alive
    /\ pool.calls < MaxCalls
    /\ \E block \in Malloc(SeqRange(pool.blocks)) :
          IF pool.remaining = 0 /\ block = 0
          THEN pool' = [pool EXCEPT !.calls = @ + 1,
                                    !.last = [op |-> "bad_alloc", ptr |-> NullSlot,
                                              pre |-> BlockFields(pool)]]
          ELSE LET a == IF pool.remaining = 0
                        THEN [pool EXCEPT !.blocks = Append(@, block),
                                          !.currentBlock = [block |-> block, slot |-> 0],
                                          !.remaining = BlockSize]
                        ELSE pool
                   obj == a.currentBlock
               IN  pool' = [a EXCEPT !.currentBlock.slot = @ + 1,
                                     !.remaining = @ - 1,
                                     !.handed = Append(@, obj),
                                     !.calls = @ + 1,
                                     !.last = [op |-> "allocate", ptr |-> obj,
                                               pre |-> BlockFields(pool)]]
    /\ UNCHANGED <<ringVars, chanVars, pipeVars, docVars, tokVars, tripVars, cmp, po>>

\* A deallocate that gives the slot back by moving the cursor to it.
BlockDeallocateRewinds ==
    /\ pool.kind = "Block"
    /\ pool.alive
    /\ pool.calls < MaxCalls
    /\ \E i \in DOMAIN pool.handed :
          pool' = [pool EXCEPT !.currentBlock = pool.handed[i],
                               !.remaining = BlockSize - pool.handed[i].slot,
                               !.calls = @ + 1,
                               !.last = [op |-> "deallocate", ptr |-> pool.handed[i],
                                         pre |-> BlockFields(pool)]]
    /\ UNCHANGED <<ringVars, chanVars, pipeVars, docVars, tokVars, tripVars, cmp, po>>

\* void deallocate(T *ptr) {}, on a pointer that allocate has returned
BlockDeallocate ==
    /\ pool.kind = "Block"
    /\ pool.alive
    /\ pool.calls < MaxCalls
    /\ \E i \in DOMAIN pool.handed :
          pool' = [pool EXCEPT !.calls = @ + 1,
                               !.last = [op |-> "deallocate", ptr |-> pool.handed[i],
                                         pre |-> BlockFields(pool)]]
    /\ UNCHANGED <<ringVars, chanVars, pipeVars, docVars, tokVars, tripVars, cmp, po>>

\* ~BlockAllocator(): for (void *block : blocks) ::free(block);
BlockDestroy ==
    /\ pool.kind = "Block"
    /\ pool.alive
    /\ pool' = [pool EXCEPT !.alive = FALSE,
                            !.released = SeqRange(pool.blocks),
                            !.last = [op |-> "destroy", ptr |-> NullSlot,
                                      pre |-> BlockFields(pool)]]
    /\ UNCHANGED <<ringVars, chanVars, pipeVars, docVars, tokVars, tripVars, cmp, po>>

\* FreeListAllocator: freeList, and next, the Node::next written into each
\* block.  live: the blocks obtained from ::malloc and not given to ::free;
\* out: the blocks allocate returned that were not deallocated since.
NewFreeListAllocator ==
    [kind |-> "FreeList", alive |-> TRUE, freeList |-> 0,
     next |-> [a \in Addresses |-> 0], live |-> {}, out |-> {}, calls |-> 0,
     last |-> NoPoolCall]

\* The blocks of the free list, from freeList along next.
RECURSIVE FreeChain(_, _, _)
FreeChain(head, next, n) ==
    IF head = 0 \/ n = 0 THEN <<>>
    ELSE <<head>> \o FreeChain(next[head], next, n - 1)

FreeListFields(a) ==
    [chain |-> FreeChain(a.freeList, a.next, MaxBlocks + 1), live |-> a.live, out |-> a.out]

\* T *allocate(size_t n)
FreeListAllocate ==
    /\ pool.kind = "FreeList"
    /\ pool.alive
    /\ pool.calls < MaxCalls
    /\ IF pool.freeList # 0
       THEN LET node == pool.freeList IN
            pool' = [pool EXCEPT !.freeList = pool.next[node],
                                 !.out = @ \cup {node},
                                 !.calls = @ + 1,
                                 !.last = [op |-> "allocate", ptr |-> node,
                                           pre |-> FreeListFields(pool)]]
       ELSE \E raw \in Malloc(pool.live) :
               IF raw = 0
               THEN pool' = [pool EXCEPT !.calls = @ + 1,
                                         !.last = [op |-> "bad_alloc", ptr |-> 0,
                                                   pre |-> FreeListFields(pool)]]
               ELSE pool' = [pool EXCEPT !.live = @ \cup {raw},
                                         !.out = @ \cup {raw},
                                         !.calls = @ + 1,
                                         !.last = [op |-> "allocate", ptr |-> raw,
                                                   pre |-> FreeListFields(pool)]]
    /\ UNCHANGED <<ringVars, chanVars, pipeVars, docVars, tokVars, tripVars, cmp, po>>

\* A deallocate that puts the block behind the last block of the list.
FreeListDeallocateAtTail ==
    /\ pool.kind = "FreeList"
    /\ pool.alive
    /\ pool.calls < MaxCalls
    /\ \E ptr \in pool.out :
          LET chain == FreeChain(pool.freeList, pool.next, MaxBlocks + 1) IN
          pool' = [pool EXCEPT !.next = IF chain = <<>> THEN [@ EXCEPT ![ptr] = 0]
                                        ELSE [@ EXCEPT ![ptr] = 0,
                                                       ![chain[Len(chain)]] = ptr],
                               !.freeList = IF chain = <<>> THEN ptr ELSE @,
                               !.out = @ \ {ptr},
                               !.calls = @ + 1,
                               !.last = [op |-> "deallocate", ptr |-> ptr,
                                         pre |-> FreeListFields(pool)]]
    /\ UNCHANGED <<ringVars, chanVars, pipeVars, docVars, tokVars, tripVars, cmp, po>>

\* void deallocate(T *ptr), on a block that allocate has returned and that
\* was not deallocated since
FreeListDeallocate ==
    /\ pool.kind = "FreeList"
    /\ pool.alive
    /\ pool.calls < MaxCalls
    /\ \E ptr \in pool.out :
          pool' = [pool EXCEPT !.next[ptr] = pool.freeList,
                               !.freeList = ptr,
                               !.out = @ \ {ptr},
                               !.calls = @ + 1,
                               !.last = [op |-> "deallocate", ptr |-> ptr,
                                         pre |-> FreeListFields(pool)]]
    /\ UNCHANGED <<ringVars, chanVars, pipeVars, docVars, tokVars, tripVars, cmp, po>>

\* ~FreeListAllocator(): while (freeList) { ...; ::free(tmp); }
FreeListDestroy ==
    /\ pool.kind = "FreeList"
    /\ pool.alive
    /\ pool' = [pool EXCEPT !.alive = FALSE,
                            !.freeList = 0,
                            !.live = @ \ SeqRange(FreeChain(pool.freeList, pool.next,
                                                           MaxBlocks + 1)),
                            !.last = [op |-> "destroy", ptr |-> 0,
                                      pre |-> FreeListFields(pool)]]
    /\ UNCHANGED <<ringVars, chanVars, pipeVars, docVars, tokVars, tripVars, cmp, po>>

InitPool ==
    /\ \/ pool = NewBlockAllocator
       \/ pool = NewFreeListAllocator
    /\ cmp = <<>>
    /\ po = <<>>
    /\ trip = <<>>
    /\ call = <<>>
    /\ otk = <<>>
    /\ RingUnused
    /\ ChanUnused
    /\ PipeUnused
    /\ DocUnused

NextPool ==
    \/ BlockAllocate
    \/ BlockDeallocate
    \/ BlockDestroy
    \/ FreeListAllocate
    \/ FreeListDeallocate
    \/ FreeListDestroy

SpecPool == InitPool /\ [][NextPool]_vars

\* ------------------------------------------------------------------------
\* Properties of the ring buffer
\* ------------------------------------------------------------------------
\* C1: with one producer and one consumer, under every interleaving, the
\* items the consumer observes (peek, then a successful pop) are the items
\* accepted by successful pushes, in the same order: the observed sequence is
\* a prefix of the accepted one, the items still queued are exactly the
\* accepted items not yet observed, and every peek returns the oldest of them.
C1_FifoOrder ==
    /\ Len(observed) <= Len(accepted)
    /\ observed = SubSeq(accepted, 1, Len(observed))
    /\ Len(accepted) = Len(observed) + Count
    /\ (cc.pc = "peek_ret" /\ cc.has) =>
          /\ Len(observed) < Len(accepted)
          /\ cc.val = accepted[Len(observed) + 1]

\* More items than the buffer has slots went through it, in order, although
\* some push was rejected on the way.
C1_Witness ==
    /\ Len(observed) > m_capacity
    /\ observed = accepted
    /\ Len(accepted) < npush
    /\ pp.pc = "idle"

\* C2: the consumer never reads a partially written or unpublished slot, and
\* the producer never writes a slot that is published and not yet popped.
C2_NoTornRead ==
    /\ ~cc.raced
    /\ cc.pc = "peek_read" =>
          /\ ~m_buffer[cc.head].torn
          /\ cc.head \in Live
    /\ pp.pc \in {"push_write", "push_write_end"} => pp.tail \notin Live
    /\ \A i \in Live : ~m_buffer[i].torn

\* The consumer reads a slot while the producer is in the middle of writing
\* another one, after the buffer has wrapped around.
C2_Witness ==
    /\ cc.pc = "peek_ret" /\ cc.has
    /\ pp.pc = "push_write_end"
    /\ Len(accepted) >= m_capacity

\* C3: push fails exactly when the next write position equals the read
\* position it loaded; a failed push leaves the write index and every slot as
\* they were, a successful one stores the item in the slot at the old write
\* index and publishes the advanced index; a slot is written only while the
\* buffer is not full.
C3_PushFailsWhenFull ==
    /\ pp.pc = "push_ret" =>
          IF pp.next_tail = pp.head
          THEN /\ ~pp.ret
               /\ m_tail = pp.tail
               /\ m_buffer = pp.snap
          ELSE /\ pp.ret
               /\ m_tail = pp.next_tail
               /\ m_buffer = [pp.snap EXCEPT ![pp.tail] = Slot(pp.item)]
    /\ pp.pc \in {"push_write", "push_write_end", "push_store"} =>
          Count < m_capacity - 1
    /\ Count <= m_capacity - 1

\* A push was rejected by a buffer that holds capacity - 1 items.
C3_Witness ==
    /\ pp.pc = "push_ret" /\ ~pp.ret
    /\ m_capacity >= 2
    /\ Count = m_capacity - 1

\* C26: at every moment the read and the write index lie in 0 .. capacity-1
\* and the number of stored items, (write index - read index) mod capacity,
\* is the number of accepted pushes that no pop has removed and is at most
\* capacity - 1: a buffer of capacity c accepts at most c - 1 pushes without
\* an intervening pop.
C26_IndicesInRange ==
    /\ m_head \in 0..(m_capacity - 1)
    /\ m_tail \in 0..(m_capacity - 1)
    /\ Count = Len(accepted) - Len(observed)
    /\ Len(accepted) - Len(observed) <= m_capacity - 1

\* The write index has wrapped around behind the read index and the buffer
\* of capacity 3 holds 2 items.
C26_Witness ==
    /\ m_capacity = 3
    /\ m_tail < m_head
    /\ Len(accepted) - Len(observed) = 2

\* ------------------------------------------------------------------------
\* Properties of the Channel
\* ------------------------------------------------------------------------
\* C7: a Channel of capacity c > 0 never holds more than c items, whatever
\* the producers and consumers do: a push that finds c items queued blocks
\* and enqueues nothing.
C7_QueueBounded ==
    /\ chan_capacity > 0 => Len(m_queue) <= chan_capacity
    /\ \A p \in m_cond_not_full : th[p].pc = "push_blocked"

\* One producer is blocked on the full queue while the other one is in push.
C7_Witness ==
    /\ chan_capacity > 0
    /\ Len(m_queue) = chan_capacity
    /\ \E p, q \in Producers :
          /\ th[p].pc = "push_blocked"
          /\ th[q].pc = "push_locked"

\* C8 as stated: a producer blocked in push completes its push once a consumer
\* has popped an item (room: an item was popped while the producer was blocked).
C8_BlockedPushCompletes ==
    \A p \in Producers :
        (th[p].pc = "push_blocked" /\ th[p].room) ~> (th[p].pc = "push_notify")

\* C8 as amended: a producer blocked in push, once a consumer has popped an
\* item, completes its push unless the pushes of other producers fill the
\* queue again first.
C8_BlockedPushCompletesOrFull ==
    \A p \in Producers :
        (th[p].pc = "push_blocked" /\ th[p].room)
            ~> (th[p].pc = "push_notify" \/ Len(m_queue) = chan_capacity)

\* A producer that was blocked on the full queue while an item was popped
\* has enqueued its item.
C8_Witness ==
    \E p \in Producers : th[p].pc = "push_notify" /\ th[p].room

\* C23: with several producers and several consumers that call peek and pop,
\* no wake-up is lost: no thread stays blocked in pop or peek for ever while
\* the queue holds an item, and no thread stays blocked in push for ever
\* while the queue has room.
C23_NoLostWakeup ==
    \A t \in Threads :
        /\ ~<>[](th[t].pc \in {"pop_blocked", "peek_blocked"} /\ NotEmpty(Len(m_queue)))
        /\ ~<>[](th[t].pc = "push_blocked" /\ NotFull(Len(m_queue), chan_capacity))

\* C9: the step of peek that takes the front item returns that item and
\* leaves the queue, the front item included, as it was.
C9_PeekLeavesQueue ==
    [][\A t \in Consumers :
          (th[t].pc = "peek_locked" /\ th'[t].pc = "peek_ret") =>
              /\ m_queue' = m_queue
              /\ th'[t].item = Head(m_queue)]_vars

\* ------------------------------------------------------------------------
\* Properties of the pipeline
\* ------------------------------------------------------------------------
\* C4: the producer thread pushes every token the Tokenizer yields, the
\* terminal End token included: when the producer has stopped, the End
\* token has been pushed and it is the last item that was pushed.
C4_EndTokenPushedLast ==
    prod.pc = "done" =>
        /\ accepted # <<>>
        /\ accepted[Len(accepted)].type = "End"

\* C5: when the pipeline's parse() has ended, with a tree or with an
\* error, the producer thread has been joined.
C5_JoinedBeforeParseEnds ==
    (par = "returned" \/ (par = "terminated" /\ ps.ctl = "error")) => joined

\* C6: on every text the synchronous parser and the pipeline agree: one
\* ends with a tree exactly when the other does, and the two trees are
\* equal.
C6_SameTree ==
    PipeEnded =>
        /\ (syncOut.status = "tree") <=> (PipeOutcome.status = "tree")
        /\ syncOut.status = "tree" => PipeOutcome.tree = syncOut.tree

\* C10: a lexical error of the Tokenizer ends the parse with that
\* ParseException, line and column included, at the caller of parse(): in
\* the synchronous parser and in the pipeline.
C10_LexicalErrorReachesCaller ==
    /\ (~SyncRunning /\ syncOut.lex # NoError) =>
           /\ syncOut.status = "error"
           /\ syncOut.err = syncOut.lex
    /\ (PipeEnded /\ PipeOutcome.lex # NoError) =>
           /\ PipeOutcome.status = "error"
           /\ PipeOutcome.err = PipeOutcome.lex

\* C11: when the synchronous parse() fails, every node allocated during
\* the parse has been released when the error reaches the caller.
C11_FailedParseReleasesNodes ==
    (~SyncRunning /\ syncOut.status = "error") => syncOut.live = 0

\* C18: parsing {"a":} raises a ParseException located at the column of
\* the '}' (column 6 of line 1).
C18_ErrorAtClosingBrace ==
    (~SyncRunning /\ input = <<"{", "\"", "a", "\"", ":", "}">>) =>
        /\ syncOut.status = "error"
        /\ syncOut.err = ParseException(1, 6)

\* The tokens of a text up to its End token, or up to the error: what
\* peek() returns between the consume() calls on a Tokenizer.
RECURSIVE TokensFrom(_, _)
TokensFrom(str, t) ==
    IF t.err # NoError THEN <<>>
    ELSE IF t.m_current_token.type = "End" THEN <<t.m_current_token>>
    ELSE <<t.m_current_token>> \o TokensFrom(str, ReadNextToken(str, t))

IsPrefix(s, t) == Len(s) <= Len(t) /\ s = SubSeq(t, 1, Len(s))

\* C25: in the pipeline the tokens the parser obtains through peek and
\* consume are the Tokenizer's tokens in order, each once: the pushes the
\* buffer accepted are a prefix of the token sequence, what the parser took
\* is a prefix of those, a rejected push is retried with the same token, the
\* Tokenizer is advanced only after its current token was accepted, and
\* when the producer stops no token of the Tokenizer was left out.
C25_TokensInOrderOnce ==
    par \in {"running", "returned", "terminated"} =>
        LET toks == TokensFrom(input, NewTokenizer(input))
        IN  /\ IsPrefix(accepted, toks)
            /\ IsPrefix(observed, accepted)
            /\ prod.pc = "push" =>
                   /\ pp.item = prod.token
                   /\ prod.token = tk.m_current_token
                   /\ prod.token = toks[Len(accepted) + (IF pp.pc = "push_ret" /\ pp.ret
                                                        THEN 0 ELSE 1)]
            /\ prod.pc = "consume" => tk.m_current_token = accepted[Len(accepted)]
            /\ prod.pc = "peek" /\ Len(accepted) < Len(toks) =>
                   tk.m_current_token = toks[Len(accepted) + 1]
            /\ prod.pc = "done" => accepted = toks

\* C22: for every text, valid or malformed, and every capacity of at least
\* 2, the pipeline's parse() ends: the caller gets a tree or an error and the
\* producer thread has finished; neither thread spins for ever on an empty
\* or a full buffer.
C22_PipelineTerminates == <>PipeEnded

\* ------------------------------------------------------------------------
\* Properties of the document model
\* ------------------------------------------------------------------------
\* The pointers to the node n that are held: by the slots of live
\* containers, by the program, by live Refs.
Owners(n) ==
    LET held == [m \in NodeIds |-> IF heap[m].live THEN Holds(heap, m, n) ELSE 0]
    IN  SumOver(held, held) + (IF n \in roots THEN 1 ELSE 0)
            + Cardinality({r \in RefIds : refs[r].live /\ refs[r].m_ptr = n})

\* C12: after every sequence of document operations each Element has at
\* most one owner (no Element is held by two containers, by two slots or by
\* a container and another owner), no container holds an Element that
\* another owner released, and no Element is its own descendant.
C12_SingleOwnership ==
    \A n \in NodeIds :
        heap[n].kind # "Free" =>
            /\ Owners(n) <= 1
            /\ ~heap[n].live => Holders(heap, n) = {}
            /\ n \notin Descendants(heap, n)

\* C13: destroying or clearing an Array or an Object releases every
\* descendant exactly once.
C13_DestroyReleasesDescendantsOnce ==
    last.op \in {"delete", "clear"} =>
        \A d \in last.olds : heap[d].released = 1

\* C14: the copy of a tree is structurally equal to the tree and shares
\* nothing with it: no node of the copy is a node of the tree, and no
\* characters that a string value or a key of the copy reads are characters
\* that the tree reads.
C14_CopySharesNothing ==
    (last.op = "copy" /\ last.c # 0) =>
        LET Storage(S) ==
                ({heap[m].view : m \in S}
                    \cup UNION {{e.s : e \in heap[m].m_obj} : m \in S}) \ {0}
            Keys(m) == {strs[e.s] : e \in heap[m].m_obj}
            RECURSIVE Equal(_, _)
            Equal(x, y) ==
                /\ heap[x].kind = heap[y].kind
                /\ heap[x].view = heap[y].view
                /\ Len(heap[x].m_arr) = Len(heap[y].m_arr)
                /\ \A i \in DOMAIN heap[x].m_arr :
                       Equal(heap[x].m_arr[i], heap[y].m_arr[i])
                /\ Cardinality(heap[x].m_obj) = Cardinality(heap[y].m_obj)
                /\ Keys(x) = Keys(y)
                /\ \A e \in heap[x].m_obj : \A f \in heap[y].m_obj :
                       strs[e.s] = strs[f.s] => Equal(e.v, f.v)
        IN  /\ Equal(last.n, last.c)
            /\ Tree(heap, last.n) \cap Tree(heap, last.c) = {}
            /\ Storage(Tree(heap, last.n)) \cap Storage(Tree(heap, last.c)) = {}

\* C15: an insert under characters that an entry of the Object was inserted
\* under releases the value of that entry exactly once, leaves the size of
\* the Object unchanged, and a lookup of the key then yields the new value.
C15_InsertReplacesOnce ==
    (last.op = "insert" /\ last.olds # {}) =>
        /\ Size(heap, last.n) = last.size
        /\ \A v \in last.olds : heap[v].released = 1
        /\ \A e \in FindOutcomes(heap, last.n, last.key) : e.v = last.c

\* C16: a Ref never shares ownership: no node is released twice, and a Ref
\* that is destroyed does not release a node that a container still holds.
C16_RefNeverSharesOwnership ==
    /\ \A n \in NodeIds : heap[n].released <= 1
    /\ last.op = "ref_dtor" => last.olds = {}

\* ------------------------------------------------------------------------
\* Properties of the Tokenizer
\* ------------------------------------------------------------------------
\* C17: peek() returns the lookahead and changes nothing: consecutive peeks
\* return the same token and leave position, line and column as they were;
\* consume() advances by exactly one token: from the old position it passes
\* white space and then the characters of one token, which is the new
\* lookahead, or it reaches the end of the text and the lookahead is End.
C17_PeekDoesNotAdvance ==
    /\ call.op = "peek" =>
           /\ tk = call.pre
           /\ call.ret = call.first
           /\ call.ret = tk.m_current_token
    /\ (call.op = "consume" /\ tk.err = NoError) =>
           LET p == FirstNonWs(input, call.pre.m_pos)
               w == SubSeq(input, p + 1, tk.m_pos)
           IN  IF p = Len(input)
               THEN tk.m_pos = Len(input) /\ tk.m_current_token.type = "End"
               ELSE /\ tk.m_pos > p
                    /\ OneToken(w, tk.m_current_token.type)
                    /\ tk.m_current_token.type \in {"Integer", "Float"} =>
                           (tk.m_pos = Len(input) \/ input[tk.m_pos + 1] \notin Digits)

\* Two peeks in a row of the second token of the text {{.
C17_Witness ==
    /\ input = <<"{", "{">>
    /\ call.op = "peek"
    /\ call.run = 2
    /\ tk.m_pos = 2

\* C30: the lookahead is the End token only when the scan position is at
\* the end of the text, and once it is End every further consume() leaves it
\* at End: End is produced again, the scan position does not move and no
\* error is raised.
C30_EndIsAbsorbing ==
    /\ (tk.err = NoError /\ tk.m_current_token.type = "End") => tk.m_pos = Len(input)
    /\ (call.op = "consume" /\ call.pre.err = NoError
            /\ call.pre.m_current_token.type = "End") =>
           /\ tk.err = NoError
           /\ tk.m_current_token = call.pre.m_current_token
           /\ tk.m_pos = call.pre.m_pos

\* consume() was called on a text of MaxLen characters, the last of them
\* white space, when the lookahead was End already.
C30_Witness ==
    /\ call.op = "consume"
    /\ call.pre.m_current_token.type = "End"
    /\ tk.m_current_token.type = "End"
    /\ Len(input) = MaxLen
    /\ input[MaxLen] = "\n"

\* C27: every number token is an optional leading '-', a run of digits
\* and optionally a '.' followed by a run of digits, taken from the text as
\* it stands; its kind is Float exactly when it holds a '.', and Integer
\* otherwise; no character of an exponent is part of it.
C27_NumberTokenShape ==
    (call.op = "consume" /\ tk.err = NoError
         /\ tk.m_current_token.type \in {"Integer", "Float"}) =>
        LET w == tk.m_current_token.value
            u == Unsigned(w)
            whole == IntegerPart(u)
            fraction == FractionPart(u)
            point == Len(whole) < Len(u)
        IN  /\ w = SubSeq(input, tk.m_pos - Len(w) + 1, tk.m_pos)
            /\ whole # <<>>
            /\ \A i \in DOMAIN whole : whole[i] \in Digits
            /\ point => fraction # <<>>
            /\ \A i \in DOMAIN fraction : fraction[i] \in Digits
            /\ (tk.m_current_token.type = "Float") <=> point

\* C19: a consume() that meets a string whose closing quote is missing
\* raises a ParseException and reads nothing behind the end of the text, in
\* the Tokenizer and in its earlier variant.
C19_UnterminatedStringRaises ==
    LET Unterminated(p) ==
            /\ p < Len(input)
            /\ input[p + 1] = "\""
            /\ ClosingQuote(input, p + 2) = 0
    IN  /\ (call.op = "consume" /\ Unterminated(FirstNonWs(input, call.pre.m_pos))) =>
               /\ tk.err # NoError
               /\ tk.m_pos <= Len(input)
        /\ (otk.pc = "started" /\ otk.began <= Len(input)
                /\ Unterminated(FirstNonWs(input, otk.began))) =>
               /\ otk.err # NoError
               /\ ~otk.over

\* ------------------------------------------------------------------------
\* Properties of serialize()
\* ------------------------------------------------------------------------
\* The number a Value holds, whether it holds it as an int or as a float.
Number(node) == IF node.kind = "Int" THEN Reduce(node.i, 0) ELSE node.f

\* Equal trees, the order of the keys and the Integer/Float distinction
\* not counted.
RECURSIVE StructurallyEqual(_, _)
StructurallyEqual(x, y) ==
    IF x.kind \in {"Int", "Float"}
    THEN y.kind \in {"Int", "Float"} /\ Number(x) = Number(y)
    ELSE /\ x.kind = y.kind
         /\ x.b = y.b
         /\ x.s = y.s
         /\ Len(x.m_arr) = Len(y.m_arr)
         /\ \A i \in DOMAIN x.m_arr : StructurallyEqual(x.m_arr[i], y.m_arr[i])
         /\ DOMAIN x.m_obj = DOMAIN y.m_obj
         /\ \A k \in DOMAIN x.m_obj : StructurallyEqual(x.m_obj[k], y.m_obj[k])

\* C20: for every valid document D, parse(serialize(parse(D))) returns a
\* tree, and that tree is structurally equal to parse(D), where the order
\* of the keys and the Integer/Float distinction are not counted.
C20_RoundTripStable ==
    (trip.pc = "second" /\ syncOut.status # "none") =>
        /\ syncOut.status = "tree"
        /\ StructurallyEqual(syncOut.tree, trip.tree)

\* ------------------------------------------------------------------------
\* Properties of parse_object
\* ------------------------------------------------------------------------
\* The grammar of the claim, as the set of its sentences of at most len
\* tokens, each with the Object it denotes:
\*   object  ::=  '{' '}'  |  '{' pair ( ',' pair )* '}'
\*   pair    ::=  String ':' value
\*   value   ::=  Integer | String | object
\* The Object holds one entry per pair; of two pairs with the same key the
\* later one is the entry.
RECURSIVE ObjectsUpTo(_)
RECURSIVE PairsUpTo(_)
RECURSIVE MembersUpTo(_)

Sentence(toks, node) == [toks |-> toks, node |-> node]

ScalarSentences ==
    {Sentence(<<Token("Integer", <<"1">>)>>, IntValue(1))}
        \cup {Sentence(<<k>>, StringValue(k.value)) : k \in KeyTokens}

ValuesUpTo(len) == (IF len >= 1 THEN ScalarSentences ELSE {}) \cup ObjectsUpTo(len)

PairsUpTo(len) ==
    {[toks |-> <<k, Colon>> \o v.toks, key |-> k.value, node |-> v.node] :
        k \in KeyTokens, v \in ValuesUpTo(len - 2)}

\* Sequences of pairs with commas between them, as [toks, node]: node is
\* the Object that holds the pairs.
MembersUpTo(len) ==
    IF len < 3 THEN {}
    ELSE {Sentence(q.toks, InsertRawPtr(NewObject, q.key, q.node)) : q \in PairsUpTo(len)}
         \cup UNION {{Sentence(m.toks \o <<Comma>> \o q.toks,
                               InsertRawPtr(m.node, q.key, q.node)) :
                         m \in MembersUpTo(len - Len(q.toks) - 1)} :
                     q \in PairsUpTo(len - 4)}

ObjectsUpTo(len) ==
    IF len < 2 THEN {}
    ELSE {Sentence(<<ObjectBegin, ObjectEnd>>, NewObject)}
         \cup {Sentence(<<ObjectBegin>> \o m.toks \o <<ObjectEnd>>, m.node) :
                  m \in MembersUpTo(len - 2)}

\* Every sequence of at most MaxTokens tokens that begins a sentence begins
\* one of at most MaxTokens + 4 tokens.
ObjectSentences == ObjectsUpTo(MaxTokens + 4)

\* The token sequences that begin a sentence.
ViablePrefixes ==
    UNION {{SubSeq(s.toks, 1, i) : i \in 0..Len(s.toks)} : s \in ObjectSentences}

\* The call r on toks ended as the grammar says: it returned the Object of
\* the sentence toks begins with, having consumed that sentence, or it
\* raised its error at the first token that no sentence has in that place.
Conforms(toks, r) ==
    IF r.ok
    THEN Sentence(SubSeq(toks, 1, r.at), r.node) \in ObjectSentences
    ELSE /\ SubSeq(toks, 1, r.at - 1) \in ViablePrefixes
         /\ Append(SubSeq(toks, 1, r.at - 1), TokenAt(toks, r.at - 1)) \notin ViablePrefixes

\* C24: parse_object accepts exactly '{' '}' and
\* '{' String ':' value (',' String ':' value)* '}', returns the Object with
\* one entry per pair, and raises its error at the first token that departs
\* from that pattern: a key that is no String, a missing colon, a missing
\* comma, a comma directly before '}', End before '}'.  Both variants.
C24_ObjectGrammar ==
    /\ po.ret.ran => Conforms(po.toks, po.ret)
    /\ po.old.ran => Conforms(po.toks, po.old)

\* The same for the current parse_object alone.
ParseObjectConforms == po.ret.ran => Conforms(po.toks, po.ret)

\* ------------------------------------------------------------------------
\* Properties of the allocators
\* ------------------------------------------------------------------------
\* C28: the BlockAllocator hands out the slots of the current block one
\* after the other and takes a new block only when the current one has none
\* left: the i-th pointer it returns is slot (i - 1) % BlockSize of its
\* ((i - 1) \div BlockSize + 1)-th block.  deallocate changes nothing, no slot
\* is handed out twice, and no block is released while the allocator lives.
C28_BlockAllocator ==
    pool.kind = "Block" =>
        /\ \A i \in DOMAIN pool.handed :
              pool.handed[i] = [block |-> pool.blocks[((i - 1) \div BlockSize) + 1],
                                slot |-> (i - 1) % BlockSize]
        /\ Len(pool.blocks) * BlockSize = Len(pool.handed) + pool.remaining
        /\ \A i, j \in DOMAIN pool.blocks : i # j => pool.blocks[i] # pool.blocks[j]
        /\ \A i, j \in DOMAIN pool.handed : i # j => pool.handed[i] # pool.handed[j]
        /\ pool.last.op = "deallocate" => BlockFields(pool) = pool.last.pre
        /\ pool.alive => pool.released = {}

\* After a deallocate the allocator has started its second block.
C28_Witness ==
    /\ pool.kind = "Block"
    /\ pool.alive
    /\ Len(pool.blocks) = 2
    /\ pool.last.op = "allocate"
    /\ Len(pool.last.pre.blocks) = 1
    /\ pool.calls > Len(pool.handed)

\* C29: deallocate puts the block at the head of the free list; allocate
\* returns the head of the list whenever the list is not empty, so the block
\* released last is reused first, and calls the system allocator only when
\* the list is empty; a block that is handed out is not handed out again
\* before it was deallocated.
C29_FreeListAllocator ==
    pool.kind = "FreeList" =>
        LET chain == FreeChain(pool.freeList, pool.next, MaxBlocks + 1)
            pre == pool.last.pre
        IN  /\ pool.last.op = "deallocate" =>
                  /\ pool.freeList = pool.last.ptr
                  /\ chain = <<pool.last.ptr>> \o pre.chain
                  /\ pool.live = pre.live
            /\ (pool.last.op = "allocate" /\ pre.chain # <<>>) =>
                  /\ pool.last.ptr = Head(pre.chain)
                  /\ chain = Tail(pre.chain)
                  /\ pool.live = pre.live
            /\ (pool.last.op = "allocate" /\ pre.chain = <<>>) =>
                  /\ pool.last.ptr \notin pre.live
                  /\ pool.live = pre.live \cup {pool.last.ptr}
                  /\ chain = <<>>
            /\ pool.last.op = "bad_alloc" => pre.chain = <<>>
            /\ pool.last.op = "allocate" => pool.last.ptr \notin pre.out
            /\ pool.alive => pool.out \cap SeqRange(chain) = {}
            /\ \A i, j \in DOMAIN chain : i # j => chain[i] # chain[j]

\* allocate has returned the block released last while an older one waits
\* in the list.
C29_Witness ==
    /\ pool.kind = "FreeList"
    /\ pool.last.op = "allocate"
    /\ Len(pool.last.pre.chain) = 2
    /\ pool.last.ptr = Head(pool.last.pre.chain)
    /\ pool.calls = 5

\* ------------------------------------------------------------------------
\* Properties of operator==
\* ------------------------------------------------------------------------
\* Two trees have the same size and equal contents: Arrays element by
\* element in order, Objects key by key.
RECURSIVE SameContents(_, _)
SameContents(x, y) ==
    LET Keys(o) == {o.m_obj[i].key : i \in DOMAIN o.m_obj}
        At(o, k) == o.m_obj[CHOOSE i \in DOMAIN o.m_obj : o.m_obj[i].key = k].v
    IN  CASE x.kind = "Array" ->
                 /\ y.kind = "Array"
                 /\ Len(x.m_arr) = Len(y.m_arr)
                 /\ \A i \in DOMAIN x.m_arr : SameContents(x.m_arr[i], y.m_arr[i])
          [] x.kind = "Object" ->
                 /\ y.kind = "Object"
                 /\ Keys(x) = Keys(y)
                 /\ \A k \in Keys(x) : SameContents(At(x, k), At(y, k))
          [] OTHER -> x = y

\* C21: operator== of two containers returns, and it returns true exactly
\* when the two have the same size and equal contents: Arrays element by
\* element in order, Objects key by key, whatever the order in which the two
\* Objects iterate over their entries.
C21_EqualIffSameContents ==
    /\ cmp.ret # "none" =>
           cmp.ret = IF SameContents(cmp.x, cmp.y) THEN "true" ELSE "false"
    /\ cmp.old # "none" =>
           cmp.old = IF SameContents(cmp.x, cmp.y) THEN "true" ELSE "false"

====
